---- MODULE Spec2Model ----
(***************************************************************************)
(* Conversational-turn orchestrator of src/server/api/routes/messages.ts   *)
(* together with the retrieval / indexing client of                        *)
(* src/server/services/embeddingService.ts.                                *)
(*                                                                         *)
(* Strings are TLA+ strings, so length, concatenation and substring tests  *)
(* are computed on the literal texts of the source.  A JavaScript value    *)
(* that is undefined where the code only reads it through `x || ''` is     *)
(* represented by the empty string.                                        *)
(***************************************************************************)
EXTENDS Integers, Sequences, FiniteSets, TLC

(***************************************************************************)
(* Bounds of the model.                                                    *)
(***************************************************************************)
\* number of createTurn requests accepted in one behaviour of Spec
MaxTurns == 2

\* number of createTurn requests accepted in one behaviour of RaceSpec
MaxRaceTurns == 2

\* request slots: handlers that may be in flight at the same time; a request
\* takes the lowest free slot.  Spec runs the requests one after the other,
\* RaceSpec runs two of them concurrently.
Slots == {1}
RaceSlots == {1, 2}

(***************************************************************************)
(* Literal texts of the source.                                            *)
(***************************************************************************)
\* src/server/services/embeddingService.ts:140
DisabledAnswer ==
  "I'm currently having trouble accessing my extended knowledge base, but I'd be happy to help you with general questions or discuss topics based on my core knowledge. What would you like to know? I can assist with various subjects including technology, programming, general knowledge, and more. Just let me know what you're interested in, and I'll provide the best possible response with the information available to me."

\* src/server/services/embeddingService.ts:141
DisabledContext ==
  "Embedding Service disabled: No API URL available"

\* src/server/services/embeddingService.ts:184
ErrorAnswer ==
  "I'm currently having trouble accessing my extended knowledge base, but I'd be happy to help you with general questions or discuss topics based on my core knowledge. What would you like to know? I can assist with various subjects including technology, programming, general knowledge, and more. Just let me know what you're interested in, and I'll provide the best possible response with the information available to me."

\* src/server/services/embeddingService.ts:185
ErrorContext ==
  "Error retrieving context"

\* src/server/api/routes/messages.ts:31
Boiler1 ==
  "Sorry, I could not generate a response."

\* src/server/api/routes/messages.ts:32
Rich1 ==
  "I apologize, but I'm having trouble generating a response right now. This could be due to a temporary issue with my knowledge base or the complexity of your question. Could you please try rephrasing your question or ask something more specific? I'm here to help and want to provide you with the best possible assistance."

\* src/server/api/routes/messages.ts:34
Boiler2 ==
  "I couldn't retrieve relevant information at the moment. How else can I assist you?"

\* src/server/api/routes/messages.ts:35
Rich2 ==
  "I'm currently unable to access my extended knowledge base, but I'd be happy to help you with general questions or discuss topics based on my core knowledge. What would you like to know? I can assist with various subjects including technology, programming, general knowledge, and more."

\* src/server/api/routes/messages.ts:37
Boiler3 ==
  "I couldn't access my extended knowledge at the moment. The embedding service is not configured."

\* src/server/api/routes/messages.ts:38
Rich3 ==
  "I'm currently operating with limited access to my knowledge base, but I can still help you with many topics. What specific question do you have? I can provide general information, help with programming questions, explain concepts, or assist with various other subjects."

\* src/server/api/routes/messages.ts:40
Boiler4 ==
  "I received your message."

\* src/server/api/routes/messages.ts:41
Rich4 ==
  "Thank you for your message! I'd be happy to help you with any questions or topics you'd like to discuss. Could you please provide more details about what you'd like to know? The more specific you are, the better I can assist you."

\* src/server/api/routes/messages.ts:53
GreetingText ==
  "Hello! I'm here to help you with any questions or topics you'd like to explore. Whether you need help with programming, want to learn about new technologies, discuss ideas, or just have a conversation, I'm ready to assist. What would you like to talk about today?"

\* src/server/api/routes/messages.ts:57
HelpText ==
  "I'm here to help! I can assist you with a wide range of topics including programming, technology, general knowledge, problem-solving, and more. Just let me know what specific area you need help with, and I'll do my best to provide detailed, helpful information. What can I help you with today?"

\* src/server/api/routes/messages.ts:61
ThanksText ==
  "You're very welcome! I'm glad I could help. If you have any more questions or need assistance with anything else, feel free to ask. I'm here to help with programming, technology, general knowledge, or any other topics you'd like to explore. What else can I assist you with?"

\* src/server/api/routes/messages.ts:65
FarewellText ==
  "Goodbye! It was great chatting with you. Feel free to return anytime if you have more questions or need assistance. I'm always here to help with programming, technology, learning, or any other topics you're interested in. Have a wonderful day!"

\* src/server/api/routes/messages.ts:69
GenericSuffix ==
  " I'd be happy to provide more detailed information or help you explore this topic further. Could you please let me know what specific aspects you'd like me to elaborate on? I can provide examples, explanations, or discuss related concepts to give you a more comprehensive understanding."

\* src/server/services/embeddingService.ts:72
EmbedDisabledError ==
  "Embedding Service is disabled: No API URL available"

\* src/server/services/embeddingService.ts:114
EmbedFailedError ==
  "Failed to create embedding"

\* messages.ts:209  `ragAnswer || 'Sorry, I could not generate a response.'`
FallbackAnswer ==
  "Sorry, I could not generate a response."

(***************************************************************************)
(* String helpers (String.prototype.includes / toLowerCase / substring).   *)
(***************************************************************************)
UpperAlphabet == "ABCDEFGHIJKLMNOPQRSTUVWXYZ"
LowerAlphabet == "abcdefghijklmnopqrstuvwxyz"

LowerChar(c) ==
  IF \E i \in 1..26 : SubSeq(UpperAlphabet, i, i) = c
    THEN LET i == CHOOSE j \in 1..26 : SubSeq(UpperAlphabet, j, j) = c
         IN  SubSeq(LowerAlphabet, i, i)
    ELSE c

RECURSIVE ToLowerCase(_)
ToLowerCase(s) ==
  IF Len(s) = 0 THEN ""
  ELSE LowerChar(SubSeq(s, 1, 1)) \o ToLowerCase(SubSeq(s, 2, Len(s)))

Includes(s, k) ==
  \E i \in 1..(Len(s) - Len(k) + 1) : SubSeq(s, i, i + Len(k) - 1) = k

\* s.substring(0, n)
Substring0(s, n) == SubSeq(s, 1, IF n < Len(s) THEN n ELSE Len(s))

(***************************************************************************)
(* ResponseEnhancer: enhanceResponse of messages.ts.                       *)
(***************************************************************************)
\* the threshold of `originalResponse.length > 200`
SubstantialLength == 200

enhancedResponses ==
  << <<Boiler1, Rich1>>, <<Boiler2, Rich2>>, <<Boiler3, Rich3>>, <<Boiler4, Rich4>> >>

IsBoilerplate(a) == \E i \in 1..Len(enhancedResponses) : enhancedResponses[i][1] = a

BoilerplateSubstitute(a) ==
  enhancedResponses[CHOOSE i \in 1..Len(enhancedResponses) : enhancedResponses[i][1] = a][2]

\* enhancedResponses is an object literal, so enhancedResponses[key] also
\* finds the members every object inherits from Object.prototype.  They are
\* functions, or for __proto__ the prototype object: truthy values that are
\* not strings.
ObjectPrototypeKeys ==
  {"constructor", "__proto__", "hasOwnProperty", "isPrototypeOf",
   "propertyIsEnumerable", "toLocaleString", "toString", "valueOf",
   "__defineGetter__", "__defineSetter__", "__lookupGetter__", "__lookupSetter__"}

\* stands for the inherited member of that name
InheritedMember(key) == "Object.prototype." \o key

\* enhancedResponses[key]; undefined is ""
lookupResponse(key) ==
  IF IsBoilerplate(key) THEN BoilerplateSubstitute(key)
  ELSE IF key \in ObjectPrototypeKeys THEN InheritedMember(key)
  ELSE ""

enhanceResponse_categoryFirst(originalResponse, userQuery) ==
  IF Len(originalResponse) > SubstantialLength THEN originalResponse
  ELSE LET queryLower == ToLowerCase(userQuery) IN
       IF Includes(queryLower, "hello") \/ Includes(queryLower, "hi") THEN GreetingText
       ELSE IF Includes(queryLower, "help") \/ Includes(queryLower, "assist") THEN HelpText
       ELSE IF Includes(queryLower, "thanks") \/ Includes(queryLower, "thank you") THEN ThanksText
       ELSE IF Includes(queryLower, "bye") \/ Includes(queryLower, "goodbye") THEN FarewellText
       ELSE IF lookupResponse(originalResponse) # "" THEN lookupResponse(originalResponse)
       ELSE originalResponse \o GenericSuffix

enhanceResponse_noPassThrough(originalResponse, userQuery) ==
  IF lookupResponse(originalResponse) # "" THEN lookupResponse(originalResponse)
  ELSE LET queryLower == ToLowerCase(userQuery) IN
       IF Includes(queryLower, "hello") \/ Includes(queryLower, "hi") THEN GreetingText
       ELSE IF Includes(queryLower, "help") \/ Includes(queryLower, "assist") THEN HelpText
       ELSE IF Includes(queryLower, "thanks") \/ Includes(queryLower, "thank you") THEN ThanksText
       ELSE IF Includes(queryLower, "bye") \/ Includes(queryLower, "goodbye") THEN FarewellText
       ELSE originalResponse \o GenericSuffix

enhanceResponse_atLeast(originalResponse, userQuery) ==
  IF Len(originalResponse) >= SubstantialLength THEN originalResponse
  ELSE IF lookupResponse(originalResponse) # "" THEN lookupResponse(originalResponse)
  ELSE LET queryLower == ToLowerCase(userQuery) IN
       IF Includes(queryLower, "hello") \/ Includes(queryLower, "hi") THEN GreetingText
       ELSE IF Includes(queryLower, "help") \/ Includes(queryLower, "assist") THEN HelpText
       ELSE IF Includes(queryLower, "thanks") \/ Includes(queryLower, "thank you") THEN ThanksText
       ELSE IF Includes(queryLower, "bye") \/ Includes(queryLower, "goodbye") THEN FarewellText
       ELSE originalResponse \o GenericSuffix

enhanceResponse(originalResponse, userQuery) ==
  IF Len(originalResponse) > SubstantialLength THEN originalResponse
  ELSE IF lookupResponse(originalResponse) # "" THEN lookupResponse(originalResponse)
  ELSE LET queryLower == ToLowerCase(userQuery) IN
       IF Includes(queryLower, "hello") \/ Includes(queryLower, "hi") THEN GreetingText
       ELSE IF Includes(queryLower, "help") \/ Includes(queryLower, "assist") THEN HelpText
       ELSE IF Includes(queryLower, "thanks") \/ Includes(queryLower, "thank you") THEN ThanksText
       ELSE IF Includes(queryLower, "bye") \/ Includes(queryLower, "goodbye") THEN FarewellText
       ELSE originalResponse \o GenericSuffix

(***************************************************************************)
(* Outcomes of one HTTP call to the external backend (axios.post).         *)
(*   kind "ok"    : 2xx, `data` is the parsed body                        *)
(*   kind "axios" : an AxiosError; status is "" when there is no response  *)
(*   kind "other" : any other thrown value                                 *)
(***************************************************************************)
Non2xx       == [kind |-> "axios", cause |-> "non2xx",  status |-> "500",
                 message |-> "Request failed with status code 500"]
NetworkError == [kind |-> "axios", cause |-> "network", status |-> "",
                 message |-> "Network Error"]
TimedOut     == [kind |-> "axios", cause |-> "timeout", status |-> "",
                 message |-> "connect ETIMEDOUT"]
OtherError   == [kind |-> "other", cause |-> "other",   status |-> "",
                 message |-> ""]

FailureOutcomes == {Non2xx, NetworkError, TimedOut, OtherError}

\* bodies the /embed endpoint answers with
EmbedBodies == { [status |-> "success", error |-> ""] }

EmbedOutcomes ==
  { [kind |-> "ok", cause |-> "ok", status |-> "200", message |-> "", data |-> d] : d \in EmbedBodies }
  \cup { o @@ [data |-> [status |-> "", error |-> ""]] : o \in FailureOutcomes }

\* bodies the /rag-generate endpoint answers with; defined = FALSE is a
\* null body
ShortAnswer == "Paris is the capital of France."

RagBodies ==
  { [defined |-> FALSE, answer |-> "", context |-> "", responseId |-> ""],
    [defined |-> TRUE,  answer |-> "", context |-> "", responseId |-> ""],
    [defined |-> TRUE,  answer |-> ShortAnswer, context |-> "ctx", responseId |-> "r1"] }

NoBody == [defined |-> FALSE, answer |-> "", context |-> "", responseId |-> ""]

RagOutcomes ==
  { [kind |-> "ok", cause |-> "ok", status |-> "200", message |-> "", data |-> d] : d \in RagBodies }
  \cup { o @@ [data |-> NoBody] : o \in FailureOutcomes }

(***************************************************************************)
(* EmbeddingService.createEmbedding: the value the call settles with.      *)
(* threw = TRUE would be a rejected promise.                               *)
(***************************************************************************)
createEmbedding(isEnabled, o) ==
  IF ~isEnabled
    THEN [threw |-> FALSE, status |-> "error", error |-> EmbedDisabledError]
  ELSE IF o.kind = "ok"
    THEN [threw |-> FALSE, status |-> o.data.status, error |-> o.data.error]
  ELSE IF o.kind = "axios"
    THEN [threw |-> FALSE, status |-> "error",
          error |-> "API error: " \o (IF o.status # "" THEN o.status ELSE "unknown")
                    \o " - " \o o.message]
  ELSE [threw |-> FALSE, status |-> "error", error |-> EmbedFailedError]

(***************************************************************************)
(* EmbeddingService.getRAGResponse: the value the call settles with.       *)
(***************************************************************************)
getRAGResponse_rethrow(isEnabled, o) ==
  IF ~isEnabled
    THEN [threw |-> FALSE, defined |-> TRUE, answer |-> DisabledAnswer,
          context |-> DisabledContext, responseId |-> ""]
  ELSE IF o.kind = "ok"
    THEN [threw |-> FALSE, defined |-> o.data.defined, answer |-> o.data.answer,
          context |-> o.data.context, responseId |-> o.data.responseId]
  ELSE [threw |-> TRUE, defined |-> FALSE, answer |-> "", context |-> "",
        responseId |-> ""]

getRAGResponse_otherText(isEnabled, o) ==
  IF ~isEnabled
    THEN [threw |-> FALSE, defined |-> TRUE, answer |-> DisabledAnswer,
          context |-> DisabledContext, responseId |-> ""]
  ELSE IF o.kind = "ok"
    THEN [threw |-> FALSE, defined |-> o.data.defined, answer |-> o.data.answer,
          context |-> o.data.context, responseId |-> o.data.responseId]
  ELSE [threw |-> FALSE, defined |-> TRUE, answer |-> Boiler2,
        context |-> ErrorContext, responseId |-> ""]

getRAGResponse(isEnabled, o) ==
  IF ~isEnabled
    THEN [threw |-> FALSE, defined |-> TRUE, answer |-> DisabledAnswer,
          context |-> DisabledContext, responseId |-> ""]
  ELSE IF o.kind = "ok"
    THEN [threw |-> FALSE, defined |-> o.data.defined, answer |-> o.data.answer,
          context |-> o.data.context, responseId |-> o.data.responseId]
  ELSE [threw |-> FALSE, defined |-> TRUE, answer |-> ErrorAnswer,
        context |-> ErrorContext, responseId |-> ""]

(***************************************************************************)
(* Requests.                                                               *)
(***************************************************************************)
Users == {"u1", "u2"}

\* a content of more than 50 characters, so that the title is truncated
LongContent == "Please summarise the quarterly report for the board meeting"

Contents == {"Hello", LongContent}

\* req.body.threadId absent
NoId == 0
\* a threadId that mongoose.Types.ObjectId.isValid rejects
BadId == -1
\* a well-formed id that names no stored document
AbsentId == MaxTurns + MaxRaceTurns + 1

(***************************************************************************)
(* State.                                                                  *)
(*   threads   Thread collection, in creation order; _id is the index      *)
(*   messages  Message collection, in creation order                       *)
(*   nextId    next Message _id                                            *)
(*   clock     the source of timestamps (new Date())                       *)
(*   enabled   EmbeddingService.enabled, fixed by the constructor          *)
(*   turn      per request slot: the handler's position and its locals     *)
(*   started   number of requests that passed validation                   *)
(* A slot that serves one of the routes /:id or /batch holds the route, the *)
(* request (id, userId, content, threadId, batch) and the returned records  *)
(* (result); route is "" in a slot that serves POST /.                      *)
(***************************************************************************)
VARIABLES threads, messages, nextId, clock, enabled, turn, started

vars == <<threads, messages, nextId, clock, enabled, turn, started>>

\* what the handler reads of an EmbeddingResponse: `.status` (logged) and the
\* truthiness of `.error` (messages.ts 171-174, 236-239)
NoEmbedding == [status |-> "", warned |-> FALSE]

seen(r) == [status |-> r.status, warned |-> r.error # ""]
NoRag == [outcome |-> "", threw |-> FALSE, defined |-> FALSE, answer |-> "",
          context |-> "", responseId |-> ""]
NoResponse == [answer |-> "", context |-> "", responseId |-> "", threadId |-> NoId,
               messageId |-> NoId]

IdleTurn ==
  [pc |-> "idle", userId |-> "", content |-> "", threadId |-> NoId,
   actualThreadId |-> NoId, created |-> FALSE,
   newMessageId |-> NoId, aiMessageId |-> NoId,
   embeddingResult |-> NoEmbedding, aiEmbeddingResult |-> NoEmbedding,
   ragResponse |-> NoRag, ragAnswer |-> "", ragContext |-> "", responseId |-> "",
   enhancedResponse |-> "", call |-> "none", sent |-> <<>>, trace |-> <<>>,
   error |-> "", failedAt |-> "", response |-> NoResponse,
   route |-> "", id |-> NoId, batch |-> <<>>, result |-> <<>>,
   context |-> "", find |-> <<>>]

InitWith(slots) ==
  /\ threads = <<>>
  /\ messages = <<>>
  /\ nextId = 1
  /\ clock = 1
  /\ enabled \in BOOLEAN
  /\ turn = [p \in slots |-> IdleTurn]
  /\ started = 0

Init == InitWith(Slots)

RaceInit == InitWith(RaceSlots)

(***************************************************************************)
(* Store queries.                                                          *)
(***************************************************************************)
ThreadIds == 1..Len(threads)

ThreadExists(id) == id \in ThreadIds

MessageIds == {messages[i].id : i \in 1..Len(messages)}

MessageById(id) == messages[CHOOSE i \in 1..Len(messages) : messages[i].id = id]

MessagesOf(tid) == SelectSeq(messages, LAMBDA m : m.threadId = tid)

ActiveThreadsOf(u) == {i \in ThreadIds : threads[i].userId = u /\ threads[i].isActive}

ThreadsOf(u) == {i \in ThreadIds : threads[i].userId = u}

\* Thread.findOne({userId, isActive: true}).sort({updatedAt: -1})
findActiveThread_anyUser(u) ==
  LET c == {i \in ThreadIds : threads[i].isActive} IN
  IF c = {} THEN NoId
  ELSE CHOOSE i \in c : \A j \in c : threads[j].updatedAt <= threads[i].updatedAt

findActiveThread_latestCreated(u) ==
  LET c == ActiveThreadsOf(u) IN
  IF c = {} THEN NoId
  ELSE CHOOSE i \in c : \A j \in c : j <= i

findActiveThread(u) ==
  LET c == ActiveThreadsOf(u) IN
  IF c = {} THEN NoId
  ELSE CHOOSE i \in c : \A j \in c : threads[j].updatedAt <= threads[i].updatedAt

\* content.substring(0, 50) + (content.length > 50 ? '...' : '')
TitleLength == 50

titleOf_ellipsisFrom50(content) ==
  Substring0(content, TitleLength) \o (IF Len(content) >= TitleLength THEN "..." ELSE "")

titleOf(content) ==
  Substring0(content, TitleLength) \o (IF Len(content) > TitleLength THEN "..." ELSE "")

(***************************************************************************)
(* Stages of a turn, in the order of the handler's text.                   *)
(***************************************************************************)
StageOrder ==
  <<"ResolveThread", "PersistUserMessage", "IndexUserMessage", "Retrieve",
    "ComposeAnswer", "PersistAssistantMessage", "IndexAssistantMessage",
    "TouchThreadTimestamp", "Respond">>

StageRank(s) == CHOOSE i \in 1..Len(StageOrder) : StageOrder[i] = s

\* the stage a handler position belongs to
StageOf(pc) ==
  CASE pc = "resolve"        -> "ResolveThread"
    [] pc = "createThread"   -> "ResolveThread"
    [] pc = "saveUser"       -> "PersistUserMessage"
    [] pc = "indexUser"      -> "IndexUserMessage"
    [] pc = "awaitEmbedUser" -> "IndexUserMessage"
    [] pc = "retrieve"       -> "Retrieve"
    [] pc = "awaitRag"       -> "Retrieve"
    [] pc = "saveAi"         -> "PersistAssistantMessage"
    [] pc = "indexAi"        -> "IndexAssistantMessage"
    [] pc = "awaitEmbedAi"   -> "IndexAssistantMessage"
    [] pc = "touch"          -> "TouchThreadTimestamp"
    [] pc = "gFind"          -> "ResolveThread"
    [] pc = "gSaveUser"      -> "PersistUserMessage"
    [] pc = "gIndexUser"     -> "IndexUserMessage"
    [] pc = "gAwaitEmbedUser" -> "IndexUserMessage"
    [] pc = "gRetrieve"      -> "Retrieve"
    [] pc = "gAwaitRag"      -> "Retrieve"
    [] pc = "gSaveAi"        -> "PersistAssistantMessage"
    [] pc = "gIndexAi"       -> "IndexAssistantMessage"
    [] pc = "gAwaitEmbedAi"  -> "IndexAssistantMessage"

\* record that the handler has begun the stage of its position
Enter(t) ==
  IF t.trace # <<>> /\ t.trace[Len(t.trace)] = StageOf(t.pc)
    THEN t.trace ELSE Append(t.trace, StageOf(t.pc))

\* the handler rejects: its locals are dropped, what is kept is what the
\* handler had done (the documents it wrote, the stages it began, the calls it
\* made)
Fail(t, err) ==
  [IdleTurn EXCEPT !.pc = "failed", !.error = err, !.failedAt = t.pc,
                   !.trace = Enter(t), !.sent = t.sent,
                   !.userId = t.userId, !.threadId = t.threadId,
                   !.actualThreadId = t.actualThreadId, !.created = t.created,
                   !.newMessageId = t.newMessageId, !.aiMessageId = t.aiMessageId]

InFlight(p) == turn[p].pc \notin {"idle", "done", "failed"}

(***************************************************************************)
(* POST /api/messages : validation (messages.ts 92-107).                   *)
(***************************************************************************)
StartTurn_noUserCheck(p, u, c, tid, limit) ==
  /\ turn[p].pc = "idle"
  /\ \A q \in DOMAIN turn : q < p => turn[q].pc # "idle"
  /\ IF c = "" \/ (tid # NoId /\ tid = BadId)
       THEN /\ turn' = [turn EXCEPT ![p] =
                          [IdleTurn EXCEPT !.pc = "failed", !.error = "ValidationError",
                                           !.failedAt = "validate"]]
            /\ UNCHANGED started
       ELSE /\ started < limit
            /\ turn' = [turn EXCEPT ![p] =
                          [IdleTurn EXCEPT !.pc = "resolve", !.userId = u,
                                           !.content = c, !.threadId = tid]]
            /\ started' = started + 1
  /\ UNCHANGED <<threads, messages, nextId, clock, enabled>>

StartTurn(p, u, c, tid, limit) ==
  /\ turn[p].pc = "idle"
  /\ \A q \in DOMAIN turn : q < p => turn[q].pc # "idle"
  /\ IF c = "" \/ u = "" \/ (tid # NoId /\ tid = BadId)
       THEN /\ turn' = [turn EXCEPT ![p] =
                          [IdleTurn EXCEPT !.pc = "failed", !.error = "ValidationError",
                                           !.failedAt = "validate"]]
            /\ UNCHANGED started
       ELSE /\ started < limit
            /\ turn' = [turn EXCEPT ![p] =
                          [IdleTurn EXCEPT !.pc = "resolve", !.userId = u,
                                           !.content = c, !.threadId = tid]]
            /\ started' = started + 1
  /\ UNCHANGED <<threads, messages, nextId, clock, enabled>>

\* the same request with a `context` in its body: the handler destructures it
\* (messages.ts 82) and reads it once, for a log line (messages.ts 88)
StartTurnWithContext(p, u, c, tid, ctx, limit) ==
  /\ turn[p].pc = "idle"
  /\ \A q \in DOMAIN turn : q < p => turn[q].pc # "idle"
  /\ IF c = "" \/ u = "" \/ (tid # NoId /\ tid = BadId)
       THEN /\ turn' = [turn EXCEPT ![p] =
                          [IdleTurn EXCEPT !.pc = "failed", !.error = "ValidationError",
                                           !.failedAt = "validate"]]
            /\ UNCHANGED started
       ELSE /\ started < limit
            /\ turn' = [turn EXCEPT ![p] =
                          [IdleTurn EXCEPT !.pc = "resolve", !.userId = u,
                                           !.content = c, !.threadId = tid,
                                           !.context = ctx]]
            /\ started' = started + 1
  /\ UNCHANGED <<threads, messages, nextId, clock, enabled>>

(***************************************************************************)
(* Find the thread (messages.ts 113-147).                                  *)
(***************************************************************************)
ResolveThread_createsMissing(p) ==
  /\ turn[p].pc = "resolve"
  /\ LET t == turn[p]
         found == IF t.threadId = NoId THEN findActiveThread(t.userId)
                  ELSE IF ThreadExists(t.threadId) THEN t.threadId ELSE NoId
     IN turn' = [turn EXCEPT ![p] =
          IF found # NoId
            THEN [t EXCEPT !.pc = "saveUser", !.actualThreadId = found, !.trace = Enter(t)]
          ELSE [t EXCEPT !.pc = "createThread", !.trace = Enter(t)]]
  /\ UNCHANGED <<threads, messages, nextId, clock, enabled, started>>

ResolveThread(p) ==
  /\ turn[p].pc = "resolve"
  /\ LET t == turn[p]
         found == IF t.threadId = NoId THEN findActiveThread(t.userId)
                  ELSE IF ThreadExists(t.threadId) THEN t.threadId ELSE NoId
     IN turn' = [turn EXCEPT ![p] =
          IF found # NoId
            THEN [t EXCEPT !.pc = "saveUser", !.actualThreadId = found, !.trace = Enter(t)]
          ELSE IF t.threadId = NoId
            THEN [t EXCEPT !.pc = "createThread", !.trace = Enter(t)]
          ELSE Fail(t, "NotFoundError")]
  /\ UNCHANGED <<threads, messages, nextId, clock, enabled, started>>

\* Thread.create({userId, title, createdBy, isActive: true})
newThread(t) ==
  [userId |-> t.userId, title |-> titleOf(t.content), createdBy |-> t.userId,
   isActive |-> TRUE, updatedAt |-> clock]

CreateThread_recheck(p) ==
  /\ turn[p].pc = "createThread"
  /\ LET t == turn[p]
         again == findActiveThread(t.userId) IN
     IF again # NoId
       THEN /\ turn' = [turn EXCEPT ![p] =
                          [t EXCEPT !.pc = "saveUser", !.actualThreadId = again]]
            /\ UNCHANGED <<threads, clock>>
       ELSE /\ threads' = Append(threads, newThread(t))
            /\ clock' = clock + 1
            /\ turn' = [turn EXCEPT ![p] =
                          [t EXCEPT !.pc = "saveUser",
                                    !.actualThreadId = Len(threads) + 1,
                                    !.created = TRUE]]
  /\ UNCHANGED <<messages, nextId, enabled, started>>

CreateThread(p) ==
  /\ turn[p].pc = "createThread"
  /\ LET t == turn[p] IN
     /\ threads' = Append(threads, newThread(t))
     /\ clock' = clock + 1
     /\ turn' = [turn EXCEPT ![p] =
                   [t EXCEPT !.pc = "saveUser", !.actualThreadId = Len(threads) + 1,
                             !.created = TRUE]]
  /\ UNCHANGED <<messages, nextId, enabled, started>>

(***************************************************************************)
(* Save the user message (messages.ts 149-159).                            *)
(***************************************************************************)
SaveUserMessage(p) ==
  /\ turn[p].pc = "saveUser"
  /\ LET t == turn[p] IN
     /\ messages' = Append(messages,
                      [id |-> nextId, threadId |-> t.actualThreadId,
                       content |-> t.content, sender |-> t.userId])
     /\ nextId' = nextId + 1
     /\ turn' = [turn EXCEPT ![p] =
                   [t EXCEPT !.pc = "indexUser", !.newMessageId = nextId,
                             !.trace = Enter(t)]]
  /\ UNCHANGED <<threads, clock, enabled, started>>

(***************************************************************************)
(* Index a message (messages.ts 161-180 and 226-245).  The request is      *)
(* axios.post(`${apiUrl}/embed`, ...) with no timeout option, so a call    *)
(* the backend never answers ("lost") never settles.                       *)
(***************************************************************************)
CallFates == {"pending", "lost"}

embedRequest(t, content, messageId) ==
  [api |-> "/embed", userId |-> t.userId, threadId |-> t.actualThreadId,
   content |-> content, messageId |-> messageId]

\* the try/catch of the handler around createEmbedding
afterEmbedding_raise(t, r) ==
  IF r.threw \/ r.status = "error" THEN Fail(t, "IndexError")
  ELSE IF t.pc = "awaitEmbedUser"
    THEN [t EXCEPT !.pc = "retrieve", !.call = "none", !.embeddingResult = seen(r)]
    ELSE [t EXCEPT !.pc = "touch", !.call = "none", !.aiEmbeddingResult = seen(r)]

afterEmbedding(t, r) ==
  LET t1 == IF r.threw THEN t
            ELSE IF t.pc = "awaitEmbedUser" THEN [t EXCEPT !.embeddingResult = seen(r)]
            ELSE [t EXCEPT !.aiEmbeddingResult = seen(r)]
  IN  [t1 EXCEPT !.pc = IF t.pc = "awaitEmbedUser" THEN "retrieve" ELSE "touch",
                 !.call = "none"]

IndexUserMessage_noAwait(p) ==
  /\ turn[p].pc = "indexUser"
  /\ LET t == turn[p] IN
     IF enabled
       THEN \E fate \in CallFates :
              turn' = [turn EXCEPT ![p] =
                [t EXCEPT !.pc = "retrieve", !.call = fate, !.trace = Enter(t),
                          !.sent = Append(t.sent,
                                     embedRequest(t, t.content, t.newMessageId))]]
       ELSE turn' = [turn EXCEPT ![p] = [t EXCEPT !.pc = "retrieve", !.trace = Enter(t)]]
  /\ UNCHANGED <<threads, messages, nextId, clock, enabled, started>>

IndexUserMessage(p) ==
  /\ turn[p].pc = "indexUser"
  /\ LET t == turn[p] IN
     IF enabled
       THEN \E fate \in CallFates :
              turn' = [turn EXCEPT ![p] =
                [t EXCEPT !.pc = "awaitEmbedUser", !.call = fate, !.trace = Enter(t),
                          !.sent = Append(t.sent,
                                     embedRequest(t, t.content, t.newMessageId))]]
       ELSE turn' = [turn EXCEPT ![p] = [t EXCEPT !.pc = "retrieve", !.trace = Enter(t)]]
  /\ UNCHANGED <<threads, messages, nextId, clock, enabled, started>>

EmbedUserReply(p, o) ==
  /\ turn[p].pc = "awaitEmbedUser"
  /\ turn[p].call = "pending"
  /\ turn' = [turn EXCEPT ![p] = afterEmbedding(turn[p], createEmbedding(enabled, o))]
  /\ UNCHANGED <<threads, messages, nextId, clock, enabled, started>>

(***************************************************************************)
(* Retrieve (messages.ts 182-206).  getRAGResponse is called with userId   *)
(* and content only.                                                       *)
(***************************************************************************)
ragRequest(t) ==
  [api |-> "/rag-generate", userId |-> t.userId, threadId |-> NoId,
   content |-> t.content, messageId |-> NoId]

composeAnswer_noFallback(ragAnswer, content) == enhanceResponse(ragAnswer, content)

\* messages.ts 208-214: the answer that is stored and returned
composeAnswer(ragAnswer, content) ==
  enhanceResponse(IF ragAnswer # "" THEN ragAnswer ELSE FallbackAnswer, content)

\* the try/catch of the handler around getRAGResponse (reading a field of a
\* null result throws inside the try block), followed without a further
\* await by the composition of the answer
afterRag_nocatch(t, r, cause) ==
  IF r.threw \/ ~r.defined
    THEN Fail(t, "RetrievalError")
    ELSE [t EXCEPT !.pc = "saveAi", !.call = "none",
                   !.trace = Append(Enter(t), "ComposeAnswer"),
                   !.ragResponse = [outcome |-> cause] @@ r,
                   !.ragAnswer = r.answer, !.ragContext = r.context,
                   !.responseId = r.responseId,
                   !.enhancedResponse = composeAnswer(r.answer, t.content)]

afterRag(t, r, cause) ==
  LET got == ~r.threw /\ r.defined
      ragAnswer == IF got THEN r.answer ELSE ""
  IN  [t EXCEPT !.pc = "saveAi", !.call = "none",
                !.trace = Append(Enter(t), "ComposeAnswer"),
                !.ragResponse = [outcome |-> cause] @@ r,
                !.ragAnswer = ragAnswer,
                !.ragContext = IF got THEN r.context ELSE "",
                !.responseId = IF got THEN r.responseId ELSE "",
                !.enhancedResponse = composeAnswer(ragAnswer, t.content)]

Retrieve(p) ==
  /\ turn[p].pc = "retrieve"
  /\ LET t == turn[p] IN
     IF enabled
       THEN \E fate \in CallFates :
              turn' = [turn EXCEPT ![p] =
                [t EXCEPT !.pc = "awaitRag", !.call = fate, !.trace = Enter(t),
                          !.sent = Append(t.sent, ragRequest(t))]]
       ELSE turn' = [turn EXCEPT ![p] =
                afterRag(t, getRAGResponse(enabled, NetworkError @@ [data |-> NoBody]),
                         "disabled")]
  /\ UNCHANGED <<threads, messages, nextId, clock, enabled, started>>

RagReply(p, o) ==
  /\ turn[p].pc = "awaitRag"
  /\ turn[p].call = "pending"
  /\ turn' = [turn EXCEPT ![p] = afterRag(turn[p], getRAGResponse(enabled, o), o.cause)]
  /\ UNCHANGED <<threads, messages, nextId, clock, enabled, started>>

(***************************************************************************)
(* Save the assistant message (messages.ts 216-224).  ragResponse is       *)
(* scoped to the try block of the retrieval stage.                         *)
(***************************************************************************)
SaveAiMessage(p) ==
  /\ turn[p].pc = "saveAi"
  /\ LET t == turn[p] IN
     /\ messages' = Append(messages,
                      [id |-> nextId, threadId |-> t.actualThreadId,
                       content |-> t.enhancedResponse, sender |-> "system"])
     /\ nextId' = nextId + 1
     /\ turn' = [turn EXCEPT ![p] =
                   [t EXCEPT !.pc = "indexAi", !.aiMessageId = nextId,
                             !.ragResponse = NoRag, !.trace = Enter(t)]]
  /\ UNCHANGED <<threads, clock, enabled, started>>

IndexAssistantMessage(p) ==
  /\ turn[p].pc = "indexAi"
  /\ LET t == turn[p] IN
     IF enabled
       THEN \E fate \in CallFates :
              turn' = [turn EXCEPT ![p] =
                [t EXCEPT !.pc = "awaitEmbedAi", !.call = fate, !.trace = Enter(t),
                          !.sent = Append(t.sent,
                                     embedRequest(t, t.enhancedResponse, t.aiMessageId))]]
       ELSE turn' = [turn EXCEPT ![p] = [t EXCEPT !.pc = "touch", !.trace = Enter(t)]]
  /\ UNCHANGED <<threads, messages, nextId, clock, enabled, started>>

EmbedAiReply(p, o) ==
  /\ turn[p].pc = "awaitEmbedAi"
  /\ turn[p].call = "pending"
  /\ turn' = [turn EXCEPT ![p] = afterEmbedding(turn[p], createEmbedding(enabled, o))]
  /\ UNCHANGED <<threads, messages, nextId, clock, enabled, started>>

(***************************************************************************)
(* Thread.findByIdAndUpdate(actualThreadId, {updatedAt: new Date()})       *)
(* (messages.ts 247-248), followed without a further await by the          *)
(* response (messages.ts 250-272).                                         *)
(***************************************************************************)
responseOf_aiMessage(t) ==
  [answer |-> t.enhancedResponse, context |-> t.ragContext,
   responseId |-> t.responseId, threadId |-> t.actualThreadId,
   messageId |-> t.aiMessageId]

responseOf_rawAnswer(t) ==
  [answer |-> t.ragAnswer, context |-> t.ragContext,
   responseId |-> t.responseId, threadId |-> t.actualThreadId,
   messageId |-> t.newMessageId]

responseOf(t) ==
  [answer |-> t.enhancedResponse, context |-> t.ragContext,
   responseId |-> t.responseId, threadId |-> t.actualThreadId,
   messageId |-> t.newMessageId]

TouchThreadTimestamp(p) ==
  /\ turn[p].pc = "touch"
  /\ LET t == turn[p] IN
     /\ threads' = IF ThreadExists(t.actualThreadId)
                     THEN [threads EXCEPT ![t.actualThreadId].updatedAt = clock]
                     ELSE threads
     /\ clock' = clock + 1
     /\ turn' = [turn EXCEPT ![p] =
                   [t EXCEPT !.pc = "done", !.trace = Append(Enter(t), "Respond"),
                             !.embeddingResult = NoEmbedding,
                             !.aiEmbeddingResult = NoEmbedding,
                             !.ragAnswer = "", !.ragContext = "", !.responseId = "",
                             !.enhancedResponse = "",
                             !.response = responseOf(t)]]
  /\ UNCHANGED <<messages, nextId, enabled, started>>

(***************************************************************************)
(* A persistence operation rejects (connection, find, create, save,        *)
(* update): the error leaves withDatabase (db.ts 56-64) and the handler.   *)
(***************************************************************************)
DbPositions == {"resolve", "createThread", "saveUser", "saveAi", "touch"}

DbFail_swallowed(p) ==
  /\ turn[p].pc \in DbPositions
  /\ LET t == turn[p] IN
     turn' = [turn EXCEPT ![p] =
       IF t.pc = "saveUser"
         THEN [t EXCEPT !.pc = "indexUser", !.failedAt = t.pc, !.trace = Enter(t)]
         ELSE Fail(t, "PersistenceError")]
  /\ UNCHANGED <<threads, messages, nextId, clock, enabled, started>>

DbFail_rollback(p) ==
  /\ turn[p].pc \in DbPositions
  /\ turn' = [turn EXCEPT ![p] = Fail(turn[p], "PersistenceError")]
  /\ messages' = SelectSeq(messages, LAMBDA m : m.id # turn[p].newMessageId)
  /\ UNCHANGED <<threads, nextId, clock, enabled, started>>

DbFail(p) ==
  /\ turn[p].pc \in DbPositions
  /\ turn' = [turn EXCEPT ![p] = Fail(turn[p], "PersistenceError")]
  /\ UNCHANGED <<threads, messages, nextId, clock, enabled, started>>

\* the request is over; the slot takes the next request
Finish(p) ==
  /\ turn[p].pc \in {"done", "failed"}
  /\ turn' = [turn EXCEPT ![p] = IdleTurn]
  /\ UNCHANGED <<threads, messages, nextId, clock, enabled, started>>

(***************************************************************************)
(* Specifications.                                                         *)
(***************************************************************************)
TurnStepOn(p, embedOutcomes, ragOutcomes) ==
  \/ ResolveThread(p)
  \/ CreateThread(p)
  \/ SaveUserMessage(p)
  \/ IndexUserMessage(p)
  \/ \E o \in embedOutcomes : EmbedUserReply(p, o)
  \/ Retrieve(p)
  \/ \E o \in ragOutcomes : RagReply(p, o)
  \/ SaveAiMessage(p)
  \/ IndexAssistantMessage(p)
  \/ \E o \in embedOutcomes : EmbedAiReply(p, o)
  \/ TouchThreadTimestamp(p)

TurnStep(p) == TurnStepOn(p, EmbedOutcomes, RagOutcomes)

Requests == (Users \cup {""}) \X (Contents \cup {""}) \X ({NoId, BadId, AbsentId} \cup ThreadIds)

Next ==
  \E p \in Slots :
    \/ \E r \in Requests : StartTurn(p, r[1], r[2], r[3], MaxTurns)
    \/ TurnStep(p)
    \/ DbFail(p)
    \/ Finish(p)

Spec == Init /\ [][Next]_vars

\* every handler that can take a step eventually takes one
FairSpec == Init /\ [][Next]_vars /\ \A p \in Slots : WF_vars(TurnStep(p))

\* two handlers in flight at the same time; the requests carry no threadId,
\* indexing succeeds and retrieval either answers or fails
RaceRequests == Users \X {"Hello"} \X {NoId}

RaceEmbedOutcomes == {o \in EmbedOutcomes : o.cause = "ok"}

RaceRagOutcomes == {o \in RagOutcomes : o.cause = "non2xx" \/ o.data.answer # ""}

RaceNext ==
  \E p \in RaceSlots :
    \/ \E r \in RaceRequests : StartTurn(p, r[1], r[2], r[3], MaxRaceTurns)
    \/ TurnStepOn(p, RaceEmbedOutcomes, RaceRagOutcomes)
    \/ DbFail(p)
    \/ Finish(p)

RaceSpec == RaceInit /\ [][RaceNext]_vars

(***************************************************************************)
(* GET /:id, PUT /:id, DELETE /:id and POST /batch (messages.ts 286-511).  *)
(* Each handler validates, then runs its reads and its one write inside    *)
(* withDatabase.  A missing userId, content or threadId is "".             *)
(***************************************************************************)
\* payloads in one batch request
MaxBatch == 2

\* requests that pass validation in one behaviour of ApiSpec
MaxCalls == 2

\* req.body.content of PUT /:id
EditedContent == "Edited"

\* req.body.messages[i] of POST /batch: a content and an optional sender
PayloadContents == <<"Hi", Boiler1, "Bye", ShortAnswer>>

Payload(i) ==
  [content |-> PayloadContents[((i - 1) % Len(PayloadContents)) + 1],
   sender |-> IF i % 2 = 1 THEN "" ELSE "assistant"]

\* req.body.messages; an absent or empty array is <<>>
Batches == { [i \in 1..n |-> Payload(i)] : n \in 0..MaxBatch }

\* req.params.id: malformed, the id of a message stored now or earlier, or a
\* well-formed id that was never issued
MessageIdInputs == {BadId} \cup 1..nextId

\* the record the handlers return for a message document
formatMessage(m) ==
  [id |-> m.id, threadId |-> m.threadId, content |-> m.content, sender |-> m.sender]

\* `if (userId) { thread = Thread.findById(message.threadId); ... }`: the
\* error the block throws, "" when it throws none
ownershipCheck_skipped(userId, tid) == ""

ownershipCheck_always(userId, tid) ==
  IF ~ThreadExists(tid) THEN "NotFoundError"
  ELSE IF threads[tid].userId # userId THEN "UnauthorizedError"
  ELSE ""

ownershipCheck(userId, tid) ==
  IF userId = "" THEN ""
  ELSE IF ~ThreadExists(tid) THEN "NotFoundError"
  ELSE IF threads[tid].userId # userId THEN "UnauthorizedError"
  ELSE ""

\* the slot of a handler that has returned or thrown
callEnd(route, id, u, c, tid, batch, err, result) ==
  [IdleTurn EXCEPT !.pc = IF err = "" THEN "done" ELSE "failed",
                   !.route = route, !.id = id, !.userId = u, !.content = c,
                   !.threadId = tid, !.batch = batch, !.error = err,
                   !.result = result]

\* GET /:id (messages.ts 286-328)
getMessage(p, id, u, dbFails) ==
  /\ turn[p].pc = "idle"
  /\ \A q \in DOMAIN turn : q < p => turn[q].pc # "idle"
  /\ LET end(err, result) == callEnd("GET /:id", id, u, "", NoId, <<>>, err, result) IN
     IF id = BadId
       THEN /\ turn' = [turn EXCEPT ![p] = end("ValidationError", <<>>)]
            /\ UNCHANGED started
       ELSE /\ started < MaxCalls
            /\ started' = started + 1
            /\ turn' = [turn EXCEPT ![p] =
                 IF dbFails THEN end("PersistenceError", <<>>)
                 ELSE IF id \notin MessageIds THEN end("NotFoundError", <<>>)
                 ELSE LET msg == MessageById(id)
                          denied == ownershipCheck(u, msg.threadId) IN
                      IF denied # "" THEN end(denied, <<>>)
                      ELSE end("", <<formatMessage(msg)>>)]
  /\ UNCHANGED <<threads, messages, nextId, clock, enabled>>

updateMessage_touchesThread(p, id, u, c, dbFails) ==
  /\ turn[p].pc = "idle"
  /\ \A q \in DOMAIN turn : q < p => turn[q].pc # "idle"
  /\ LET end(err, result) == callEnd("PUT /:id", id, u, c, NoId, <<>>, err, result) IN
     IF c = "" \/ id = BadId
       THEN /\ turn' = [turn EXCEPT ![p] = end("ValidationError", <<>>)]
            /\ UNCHANGED <<started, messages>>
       ELSE /\ started < MaxCalls
            /\ started' = started + 1
            /\ IF dbFails
                 THEN /\ turn' = [turn EXCEPT ![p] = end("PersistenceError", <<>>)]
                      /\ UNCHANGED messages
               ELSE IF id \notin MessageIds
                 THEN /\ turn' = [turn EXCEPT ![p] = end("NotFoundError", <<>>)]
                      /\ UNCHANGED messages
               ELSE LET msg == MessageById(id)
                        denied == ownershipCheck(u, msg.threadId)
                        saved == [msg EXCEPT !.content = c] IN
                    IF denied # ""
                      THEN /\ turn' = [turn EXCEPT ![p] = end(denied, <<>>)]
                           /\ UNCHANGED messages
                      ELSE /\ messages' = [i \in 1..Len(messages) |->
                                             IF messages[i].id = id THEN saved
                                             ELSE messages[i]]
                           /\ turn' = [turn EXCEPT ![p] = end("", <<formatMessage(saved)>>)]
  /\ threads' = IF turn'[p].pc = "done"
                  THEN [threads EXCEPT ![MessageById(id).threadId].updatedAt = clock]
                  ELSE threads
  /\ clock' = IF turn'[p].pc = "done" THEN clock + 1 ELSE clock
  /\ UNCHANGED <<nextId, enabled>>

\* PUT /:id (messages.ts 341-392)
updateMessage(p, id, u, c, dbFails) ==
  /\ turn[p].pc = "idle"
  /\ \A q \in DOMAIN turn : q < p => turn[q].pc # "idle"
  /\ LET end(err, result) == callEnd("PUT /:id", id, u, c, NoId, <<>>, err, result) IN
     IF c = "" \/ id = BadId
       THEN /\ turn' = [turn EXCEPT ![p] = end("ValidationError", <<>>)]
            /\ UNCHANGED <<started, messages>>
       ELSE /\ started < MaxCalls
            /\ started' = started + 1
            /\ IF dbFails
                 THEN /\ turn' = [turn EXCEPT ![p] = end("PersistenceError", <<>>)]
                      /\ UNCHANGED messages
               ELSE IF id \notin MessageIds
                 THEN /\ turn' = [turn EXCEPT ![p] = end("NotFoundError", <<>>)]
                      /\ UNCHANGED messages
               ELSE LET msg == MessageById(id)
                        denied == ownershipCheck(u, msg.threadId)
                        saved == [msg EXCEPT !.content = c] IN
                    IF denied # ""
                      THEN /\ turn' = [turn EXCEPT ![p] = end(denied, <<>>)]
                           /\ UNCHANGED messages
                      ELSE /\ messages' = [i \in 1..Len(messages) |->
                                             IF messages[i].id = id THEN saved
                                             ELSE messages[i]]
                           /\ turn' = [turn EXCEPT ![p] = end("", <<formatMessage(saved)>>)]
  /\ UNCHANGED <<threads, nextId, clock, enabled>>

\* Message.findByIdAndDelete(id)
withoutMessage_cascade(id) ==
  SelectSeq(messages, LAMBDA m : m.threadId # MessageById(id).threadId)

withoutMessage(id) == SelectSeq(messages, LAMBDA m : m.id # id)

\* DELETE /:id (messages.ts 405-450)
deleteMessage(p, id, u, dbFails) ==
  /\ turn[p].pc = "idle"
  /\ \A q \in DOMAIN turn : q < p => turn[q].pc # "idle"
  /\ LET end(err, result) == callEnd("DELETE /:id", id, u, "", NoId, <<>>, err, result) IN
     IF id = BadId
       THEN /\ turn' = [turn EXCEPT ![p] = end("ValidationError", <<>>)]
            /\ UNCHANGED <<started, messages>>
       ELSE /\ started < MaxCalls
            /\ started' = started + 1
            /\ IF dbFails
                 THEN /\ turn' = [turn EXCEPT ![p] = end("PersistenceError", <<>>)]
                      /\ UNCHANGED messages
               ELSE IF id \notin MessageIds
                 THEN /\ turn' = [turn EXCEPT ![p] = end("NotFoundError", <<>>)]
                      /\ UNCHANGED messages
               ELSE LET msg == MessageById(id)
                        denied == ownershipCheck(u, msg.threadId) IN
                    IF denied # ""
                      THEN /\ turn' = [turn EXCEPT ![p] = end(denied, <<>>)]
                           /\ UNCHANGED messages
                      ELSE /\ messages' = withoutMessage(id)
                           /\ turn' = [turn EXCEPT ![p] =
                                end("", << [id |-> id, threadId |-> msg.threadId,
                                            deleted |-> TRUE] >>)]
  /\ UNCHANGED <<threads, nextId, clock, enabled>>

\* messages.map(msg => ({threadId, content: msg.content,
\*                       sender: msg.sender || userId || 'system'}))
\* as the documents insertMany builds of them
messagesToInsert_enhanced(tid, u, batch) ==
  [i \in 1..Len(batch) |->
     [id |-> nextId + i - 1, threadId |-> tid,
      content |-> enhanceResponse(batch[i].content, batch[i].content),
      sender |-> IF batch[i].sender # "" THEN batch[i].sender
                 ELSE IF u # "" THEN u ELSE "system"]]

messagesToInsert(tid, u, batch) ==
  [i \in 1..Len(batch) |->
     [id |-> nextId + i - 1, threadId |-> tid, content |-> batch[i].content,
      sender |-> IF batch[i].sender # "" THEN batch[i].sender
                 ELSE IF u # "" THEN u ELSE "system"]]

\* Thread.findById rejects
LookupFails == -1

\* POST /batch (messages.ts 463-511).  Message.insertMany is called without a
\* session: the documents are written one after the other, and a write that
\* fails leaves the documents written before it in the collection.  written
\* is the number of documents written: all of them when the call succeeds.
batchCreateMessages(p, tid, u, batch, written) ==
  /\ turn[p].pc = "idle"
  /\ \A q \in DOMAIN turn : q < p => turn[q].pc # "idle"
  /\ LET end(err, result) == callEnd("POST /batch", NoId, u, "", tid, batch, err, result) IN
     IF tid = NoId \/ batch = <<>> \/ tid = BadId
       THEN /\ turn' = [turn EXCEPT ![p] = end("ValidationError", <<>>)]
            /\ UNCHANGED <<started, messages, nextId>>
       ELSE /\ started < MaxCalls
            /\ started' = started + 1
            /\ IF written = LookupFails
                 THEN /\ turn' = [turn EXCEPT ![p] = end("PersistenceError", <<>>)]
                      /\ UNCHANGED <<messages, nextId>>
               ELSE IF ~ThreadExists(tid)
                 THEN /\ turn' = [turn EXCEPT ![p] = end("NotFoundError", <<>>)]
                      /\ UNCHANGED <<messages, nextId>>
               ELSE IF u # "" /\ threads[tid].userId # u
                 THEN /\ turn' = [turn EXCEPT ![p] = end("UnauthorizedError", <<>>)]
                      /\ UNCHANGED <<messages, nextId>>
               ELSE LET docs == messagesToInsert(tid, u, batch) IN
                    /\ messages' = messages \o SubSeq(docs, 1, written)
                    /\ nextId' = nextId + written
                    /\ turn' = [turn EXCEPT ![p] =
                         IF written < Len(batch) THEN end("PersistenceError", <<>>)
                         ELSE end("", [i \in 1..Len(docs) |-> formatMessage(docs[i])])]
  /\ UNCHANGED <<threads, clock, enabled>>

(***************************************************************************)
(* POST /generate (messages.ts 524-624): a message and its answer in a     *)
(* thread that exists.  The body carries threadId, userMessage and         *)
(* context; the user is the thread's.                                      *)
(***************************************************************************)
GenerateRoute == "POST /generate"

MissingContext == "RAG context not available"

SuppliedContext == "The user built an IoT dashboard."

generateFail(t, err) ==
  [Fail(t, err) EXCEPT !.route = t.route, !.content = t.content,
                       !.context = t.context]

\* messages.ts 526-535: validation, before any database access
StartGenerate(p, tid, userMessage, ctx, limit) ==
  /\ turn[p].pc = "idle"
  /\ \A q \in DOMAIN turn : q < p => turn[q].pc # "idle"
  /\ IF tid = NoId \/ userMessage = "" \/ tid = BadId
       THEN /\ turn' = [turn EXCEPT ![p] =
                          [IdleTurn EXCEPT !.pc = "failed", !.error = "ValidationError",
                                           !.failedAt = "validate",
                                           !.route = GenerateRoute]]
            /\ UNCHANGED started
       ELSE /\ started < limit
            /\ turn' = [turn EXCEPT ![p] =
                          [IdleTurn EXCEPT !.pc = "gFind", !.route = GenerateRoute,
                                           !.content = userMessage, !.threadId = tid,
                                           !.context = ctx]]
            /\ started' = started + 1
  /\ UNCHANGED <<threads, messages, nextId, clock, enabled>>

\* messages.ts 538-542: Thread.findById
GenerateFindThread(p) ==
  /\ turn[p].pc = "gFind"
  /\ LET t == turn[p] IN
     turn' = [turn EXCEPT ![p] =
       IF ThreadExists(t.threadId)
         THEN [t EXCEPT !.pc = "gSaveUser", !.actualThreadId = t.threadId,
                        !.userId = threads[t.threadId].userId, !.trace = Enter(t)]
         ELSE generateFail(t, "NotFoundError")]
  /\ UNCHANGED <<threads, messages, nextId, clock, enabled, started>>

\* messages.ts 545-551: the user message, sent by the thread's user
GenerateSaveUserMessage(p) ==
  /\ turn[p].pc = "gSaveUser"
  /\ LET t == turn[p] IN
     /\ messages' = Append(messages,
                      [id |-> nextId, threadId |-> t.threadId,
                       content |-> t.content,
                       sender |-> IF t.userId # "" THEN t.userId ELSE "user"])
     /\ nextId' = nextId + 1
     /\ turn' = [turn EXCEPT ![p] =
                   [t EXCEPT !.pc = "gIndexUser", !.newMessageId = nextId,
                             !.trace = Enter(t)]]
  /\ UNCHANGED <<threads, clock, enabled, started>>

\* messages.ts 554-565
GenerateIndexUserMessage(p) ==
  /\ turn[p].pc = "gIndexUser"
  /\ LET t == turn[p] IN
     IF enabled
       THEN \E fate \in CallFates :
              turn' = [turn EXCEPT ![p] =
                [t EXCEPT !.pc = "gAwaitEmbedUser", !.call = fate, !.trace = Enter(t),
                          !.sent = Append(t.sent,
                                     embedRequest(t, t.content, t.newMessageId))]]
       ELSE turn' = [turn EXCEPT ![p] = [t EXCEPT !.pc = "gRetrieve", !.trace = Enter(t)]]
  /\ UNCHANGED <<threads, messages, nextId, clock, enabled, started>>

generateAfterEmbedding(t, r) ==
  LET t1 == IF r.threw THEN t
            ELSE IF t.pc = "gAwaitEmbedUser" THEN [t EXCEPT !.embeddingResult = seen(r)]
            ELSE [t EXCEPT !.aiEmbeddingResult = seen(r)]
  IN  [t1 EXCEPT !.pc = IF t.pc = "gAwaitEmbedUser" THEN "gRetrieve" ELSE "gRespond",
                 !.call = "none"]

GenerateEmbedUserReply(p, o) ==
  /\ turn[p].pc = "gAwaitEmbedUser"
  /\ turn[p].call = "pending"
  /\ turn' = [turn EXCEPT ![p] =
                generateAfterEmbedding(turn[p], createEmbedding(enabled, o))]
  /\ UNCHANGED <<threads, messages, nextId, clock, enabled, started>>

\* messages.ts 571-575: getRAGResponse(thread.userId, userMessage, threadId)
generateRagRequest(t) ==
  [api |-> "/rag-generate", userId |-> t.userId, threadId |-> t.threadId,
   content |-> t.content, messageId |-> NoId]

\* messages.ts 568-589: the same reading of the result, fallback and
\* enhancement as in POST /
generateAfterRag(t, r, cause) ==
  [afterRag(t, r, cause) EXCEPT !.pc = "gSaveAi"]

GenerateRetrieve(p) ==
  /\ turn[p].pc = "gRetrieve"
  /\ LET t == turn[p] IN
     IF enabled
       THEN \E fate \in CallFates :
              turn' = [turn EXCEPT ![p] =
                [t EXCEPT !.pc = "gAwaitRag", !.call = fate, !.trace = Enter(t),
                          !.sent = Append(t.sent, generateRagRequest(t))]]
       ELSE turn' = [turn EXCEPT ![p] =
                generateAfterRag(t,
                  getRAGResponse(enabled, NetworkError @@ [data |-> NoBody]),
                  "disabled")]
  /\ UNCHANGED <<threads, messages, nextId, clock, enabled, started>>

GenerateRagReply(p, o) ==
  /\ turn[p].pc = "gAwaitRag"
  /\ turn[p].call = "pending"
  /\ turn' = [turn EXCEPT ![p] =
                generateAfterRag(turn[p], getRAGResponse(enabled, o), o.cause)]
  /\ UNCHANGED <<threads, messages, nextId, clock, enabled, started>>

\* messages.ts 592-600
GenerateSaveAiMessage(p) ==
  /\ turn[p].pc = "gSaveAi"
  /\ LET t == turn[p] IN
     /\ messages' = Append(messages,
                      [id |-> nextId, threadId |-> t.threadId,
                       content |-> t.enhancedResponse, sender |-> "system"])
     /\ nextId' = nextId + 1
     /\ turn' = [turn EXCEPT ![p] =
                   [t EXCEPT !.pc = "gIndexAi", !.aiMessageId = nextId,
                             !.ragResponse = NoRag, !.trace = Enter(t)]]
  /\ UNCHANGED <<threads, clock, enabled, started>>

\* messages.ts 603-614
GenerateIndexAssistantMessage(p) ==
  /\ turn[p].pc = "gIndexAi"
  /\ LET t == turn[p] IN
     IF enabled
       THEN \E fate \in CallFates :
              turn' = [turn EXCEPT ![p] =
                [t EXCEPT !.pc = "gAwaitEmbedAi", !.call = fate, !.trace = Enter(t),
                          !.sent = Append(t.sent,
                                     embedRequest(t, t.enhancedResponse, t.aiMessageId))]]
       ELSE turn' = [turn EXCEPT ![p] = [t EXCEPT !.pc = "gRespond", !.trace = Enter(t)]]
  /\ UNCHANGED <<threads, messages, nextId, clock, enabled, started>>

GenerateEmbedAiReply(p, o) ==
  /\ turn[p].pc = "gAwaitEmbedAi"
  /\ turn[p].call = "pending"
  /\ turn' = [turn EXCEPT ![p] =
                generateAfterEmbedding(turn[p], createEmbedding(enabled, o))]
  /\ UNCHANGED <<threads, messages, nextId, clock, enabled, started>>

\* messages.ts 616-620: the payload has answer, context and responseId only
generateResponseOf(t) ==
  [answer |-> t.enhancedResponse,
   context |-> IF t.ragContext # "" THEN t.ragContext ELSE MissingContext,
   responseId |-> t.responseId, threadId |-> NoId, messageId |-> NoId]

GenerateRespond_touches(p) ==
  /\ turn[p].pc = "gRespond"
  /\ LET t == turn[p] IN
     turn' = [turn EXCEPT ![p] =
                [t EXCEPT !.pc = "done", !.trace = Append(t.trace, "Respond"),
                          !.embeddingResult = NoEmbedding,
                          !.aiEmbeddingResult = NoEmbedding,
                          !.ragAnswer = "", !.ragContext = "", !.responseId = "",
                          !.enhancedResponse = "",
                          !.response = generateResponseOf(t)]]
  /\ threads' = [threads EXCEPT ![turn[p].threadId].updatedAt = clock]
  /\ clock' = clock + 1
  /\ UNCHANGED <<messages, nextId, enabled, started>>

\* messages.ts 616-623: the response follows the indexing without a further
\* await and without a write
GenerateRespond(p) ==
  /\ turn[p].pc = "gRespond"
  /\ LET t == turn[p] IN
     turn' = [turn EXCEPT ![p] =
                [t EXCEPT !.pc = "done", !.trace = Append(t.trace, "Respond"),
                          !.embeddingResult = NoEmbedding,
                          !.aiEmbeddingResult = NoEmbedding,
                          !.ragAnswer = "", !.ragContext = "", !.responseId = "",
                          !.enhancedResponse = "",
                          !.response = generateResponseOf(t)]]
  /\ UNCHANGED <<threads, messages, nextId, clock, enabled, started>>

GenerateStepOn(p, embedOutcomes, ragOutcomes) ==
  \/ GenerateFindThread(p)
  \/ GenerateSaveUserMessage(p)
  \/ GenerateIndexUserMessage(p)
  \/ \E o \in embedOutcomes : GenerateEmbedUserReply(p, o)
  \/ GenerateRetrieve(p)
  \/ \E o \in ragOutcomes : GenerateRagReply(p, o)
  \/ GenerateSaveAiMessage(p)
  \/ GenerateIndexAssistantMessage(p)
  \/ \E o \in embedOutcomes : GenerateEmbedAiReply(p, o)
  \/ GenerateRespond(p)

\* all routes, one request at a time; indexing succeeds, retrieval answers in
\* POST / and answers, answers emptily or fails in POST /generate
ApiRequests ==
  (Users \cup {""}) \X {"Hello", ""} \X ({NoId, BadId, AbsentId} \cup ThreadIds)

ApiRagOutcomes == {o \in RagOutcomes : o.data.answer # ""}

ApiNext ==
  \E p \in Slots :
    \/ \E r \in ApiRequests : StartTurn(p, r[1], r[2], r[3], MaxCalls)
    \/ \E r \in ApiRequests :
         StartTurnWithContext(p, r[1], r[2], r[3], SuppliedContext, MaxCalls)
    \/ TurnStepOn(p, RaceEmbedOutcomes, ApiRagOutcomes)
    \/ \E tid \in {NoId, BadId, AbsentId} \cup ThreadIds, c \in {"Hello", ""},
          ctx \in {"", SuppliedContext} :
         StartGenerate(p, tid, c, ctx, MaxCalls)
    \/ GenerateStepOn(p, RaceEmbedOutcomes, RagOutcomes)
    \/ Finish(p)
    \/ \E id \in MessageIdInputs, u \in Users \cup {""}, dbFails \in BOOLEAN :
         getMessage(p, id, u, dbFails)
    \/ \E id \in MessageIdInputs, u \in Users \cup {""}, c \in {"", EditedContent},
          dbFails \in BOOLEAN :
         updateMessage(p, id, u, c, dbFails)
    \/ \E id \in MessageIdInputs, u \in Users \cup {""}, dbFails \in BOOLEAN :
         deleteMessage(p, id, u, dbFails)
    \/ \E tid \in {NoId, BadId, AbsentId} \cup ThreadIds, u \in Users \cup {""},
          batch \in Batches :
         \E written \in LookupFails..Len(batch) :
           batchCreateMessages(p, tid, u, batch, written)

ApiSpec == Init /\ [][ApiNext]_vars

(***************************************************************************)
(* enhanceResponse on its own (messages.ts 23-70, called at 213): a slot    *)
(* holds a candidate answer and a query, and the step applies the function. *)
(***************************************************************************)
\* candidate answers are cut to lengths from SubstantialLength - MaxMargin to
\* SubstantialLength + MaxMargin
MaxMargin == 2

NearThreshold ==
  { Substring0(text, n) :
      text \in {DisabledAnswer, Rich1},
      n \in (SubstantialLength - MaxMargin)..(SubstantialLength + MaxMargin) }

CandidateAnswers ==
  NearThreshold
    \cup {DisabledAnswer, ShortAnswer, FallbackAnswer, Boiler1, Boiler2, Boiler3, Boiler4}
    \cup {"constructor", "__proto__"}

Queries ==
  {"", "Hello", "HELP me", "thanks", "goodbye", "What now",
   "hello and help", "Thank you, bye", "Assist me, thanks", "Is this right?"}

EnhanceInit ==
  /\ threads = <<>>
  /\ messages = <<>>
  /\ nextId = 1
  /\ clock = 1
  /\ enabled = FALSE
  /\ started = 0
  /\ \E a \in CandidateAnswers, q \in Queries :
       turn = [p \in Slots |->
                 [IdleTurn EXCEPT !.pc = "compose", !.ragAnswer = a, !.content = q]]

Enhance(p) ==
  /\ turn[p].pc = "compose"
  /\ turn' = [turn EXCEPT ![p] =
       [turn[p] EXCEPT !.pc = "composed",
                       !.enhancedResponse =
                          enhanceResponse(turn[p].ragAnswer, turn[p].content)]]
  /\ UNCHANGED <<threads, messages, nextId, clock, enabled, started>>

EnhanceNext == \E p \in Slots : Enhance(p)

EnhanceSpec == EnhanceInit /\ [][EnhanceNext]_vars

(***************************************************************************)
(* Thread creation on its own (messages.ts 113-137): a request without      *)
(* threadId of a user without thread has passed the validation; the         *)
(* contents are cut to lengths around the length of a title.                *)
(***************************************************************************)
TitleContents ==
  { Substring0(text, n) :
      text \in {DisabledAnswer, Rich1, GreetingText, HelpText},
      n \in (TitleLength - MaxMargin)..(TitleLength + MaxMargin) }
    \cup Contents

TitleInit ==
  /\ threads = <<>>
  /\ messages = <<>>
  /\ nextId = 1
  /\ clock = 1
  /\ enabled = FALSE
  /\ started = 1
  /\ \E u \in Users, c \in TitleContents :
       turn = [p \in Slots |->
                 [IdleTurn EXCEPT !.pc = "resolve", !.userId = u, !.content = c]]

TitleNext == \E p \in Slots : ResolveThread(p) \/ CreateThread(p)

TitleSpec == TitleInit /\ [][TitleNext]_vars

(***************************************************************************)
(* Requests without threadId, up to two at a time, with the embedding      *)
(* service disabled: two handlers that both find no thread leave a user    *)
(* with two active threads, and a later request has to pick one.           *)
(***************************************************************************)
MaxResolveTurns == 3

ResolveInit == InitWith(RaceSlots) /\ enabled = FALSE

ResolveRequests == Users \X {"Hello"} \X {NoId}

ResolveNext ==
  \E p \in RaceSlots :
    \/ \E r \in ResolveRequests : StartTurn(p, r[1], r[2], r[3], MaxResolveTurns)
    \/ ResolveThread(p)
    \/ CreateThread(p)
    \/ SaveUserMessage(p)
    \/ IndexUserMessage(p)
    \/ Retrieve(p)
    \/ SaveAiMessage(p)
    \/ IndexAssistantMessage(p)
    \/ TouchThreadTimestamp(p)
    \/ Finish(p)

ResolveSpec == ResolveInit /\ [][ResolveNext]_vars

(***************************************************************************)
(* OpenAIService.getRelevantMemory (openai.ts, src/unnamed/part_003        *)
(* 183-207): keyword search over the messages of a thread.                 *)
(***************************************************************************)
MemoryRoute == "getRelevantMemory"

\* part_003:184
RecallTriggers ==
  {"what did i say", "earlier", "before", "previous", "remind me", "last time"}

\* part_003:190
RecallStopWords == {"what", "did", "i", "say", "about", "the", "last", "time", "you"}

\* .limit(3), part_003:201
MemoryLimit == 3

\* part_003:203: U+2022 BULLET and a space; the module is ASCII, the bullet is
\* written "*"
Bullet == "* "

\* String.prototype.split(/\s+/): the pieces between runs of whitespace; a run
\* at the start or at the end of the string gives an empty piece
RECURSIVE splitFrom(_, _, _)
splitFrom(s, i, piece) ==
  IF i > Len(s) THEN <<piece>>
  ELSE IF SubSeq(s, i, i) # " " THEN splitFrom(s, i + 1, piece \o SubSeq(s, i, i))
  ELSE IF i > 1 /\ SubSeq(s, i - 1, i - 1) = " " THEN splitFrom(s, i + 1, piece)
  ELSE <<piece>> \o splitFrom(s, i + 1, "")

splitWhitespace(s) == splitFrom(s, 1, "")

\* new RegExp(pattern, 'i') for patterns of ordinary characters, "." and "?":
\* a "?" makes the character before it optional, a second "?" makes that
\* lazy, and a "?" with nothing to repeat is a SyntaxError
regexValid(pattern) ==
  \A i \in 1..Len(pattern) :
    SubSeq(pattern, i, i) = "?"
      => /\ i > 1
         /\ \/ SubSeq(pattern, i - 1, i - 1) # "?"
            \/ i > 2 /\ SubSeq(pattern, i - 2, i - 2) # "?"

RECURSIVE regexItems(_, _)
regexItems(pattern, i) ==
  IF i > Len(pattern) THEN <<>>
  ELSE IF SubSeq(pattern, i, i) = "?" THEN regexItems(pattern, i + 1)
  ELSE <<[ch |-> SubSeq(pattern, i, i),
          optional |-> i < Len(pattern) /\ SubSeq(pattern, i + 1, i + 1) = "?"]>>
         \o regexItems(pattern, i + 1)

RECURSIVE matchAt(_, _, _, _)
matchAt(items, k, s, i) ==
  IF k > Len(items) THEN TRUE
  ELSE \/ /\ i <= Len(s)
          /\ items[k].ch = "." \/ LowerChar(items[k].ch) = SubSeq(s, i, i)
          /\ matchAt(items, k + 1, s, i + 1)
       \/ /\ items[k].optional
          /\ matchAt(items, k + 1, s, i)

\* { $regex: regex } on a content
regexTest(pattern, content) ==
  LET items == regexItems(pattern, 1)
      s == ToLowerCase(content)
  IN  \E i \in 1..(Len(s) + 1) : matchAt(items, 1, s, i)

\* Message.find({threadId, sender: {$ne: 'system'}, content: {$regex}})
\*   .sort({createdAt: -1}).limit(3)
findPastMessages(tid, pattern) ==
  LET found == SelectSeq(messages, LAMBDA m :
                 m.threadId = tid /\ m.sender # "system"
                   /\ regexTest(pattern, m.content))
      n == Len(found)
      k == IF n < MemoryLimit THEN n ELSE MemoryLimit
  IN  [i \in 1..k |-> found[n - i + 1]]

shouldRecall_always(queryLower) == TRUE

\* part_003:185-186
shouldRecall(queryLower) ==
  \E trigger \in RecallTriggers : Includes(queryLower, trigger)

\* part_003:189-191
lastKeywordOf(queryLower) ==
  LET keywords == SelectSeq(splitWhitespace(queryLower),
                            LAMBDA w : w \notin RecallStopWords)
  IN  IF keywords = <<>> THEN "" ELSE keywords[Len(keywords)]

MaxRecalls == 2

getRelevantMemory(p, tid, userMessage, dbFails) ==
  /\ turn[p].pc = "idle"
  /\ started < MaxRecalls
  /\ started' = started + 1
  /\ LET queryLower == ToLowerCase(userMessage)
         lastKeyword == lastKeywordOf(queryLower)
         filter == [threadId |-> tid, pattern |-> lastKeyword]
         pastMessages == findPastMessages(tid, lastKeyword)
         end(err, lines, finds) ==
           [callEnd(MemoryRoute, NoId, "", userMessage, tid, <<>>, err, lines)
              EXCEPT !.find = finds]
     IN turn' = [turn EXCEPT ![p] =
          IF ~shouldRecall(queryLower) THEN end("", <<>>, <<>>)
          ELSE IF lastKeyword = "" THEN end("", <<>>, <<>>)
          ELSE IF ~regexValid(lastKeyword) THEN end("SyntaxError", <<>>, <<>>)
          \* new mongoose.Types.ObjectId(threadId) throws inside the try block
          ELSE IF tid = BadId THEN end("", <<>>, <<>>)
          ELSE IF dbFails THEN end("", <<>>, <<filter>>)
          ELSE end("", [i \in 1..Len(pastMessages) |->
                          Bullet \o pastMessages[i].content], <<filter>>)]
  /\ UNCHANGED <<threads, messages, nextId, clock, enabled>>

\* a store as the routes leave it: two threads, messages of users and of the
\* assistant in creation order, some of them deleted since
StoredMessages ==
  <<[id |-> 1, threadId |-> 1, content |-> "I built an IoT dashboard", sender |-> "u1"],
    [id |-> 2, threadId |-> 1, content |-> "An IoT dashboard, as you said earlier", sender |-> "system"],
    [id |-> 3, threadId |-> 2, content |-> "iot cats earlier", sender |-> "u2"],
    [id |-> 4, threadId |-> 1, content |-> "my cat sleeps", sender |-> "u1"],
    [id |-> 5, threadId |-> 1, content |-> "two cats and IOT", sender |-> "u1"],
    [id |-> 6, threadId |-> 1, content |-> "more iot", sender |-> "u1"],
    [id |-> 7, threadId |-> 1, content |-> "iot, as before", sender |-> "u1"]>>

RecallQueries ==
  {"", "hello", "tell me about iot", "what did i say about iot",
   "What did I say about IoT", "what did i say", "what did i say about the last time",
   "what did i say about cats?", "remind me about cats ", "what did i say earlier",
   "what did i say earlier ?", "iot before"}

MemoryInit ==
  /\ threads = <<[userId |-> "u1", title |-> titleOf("Hello"), createdBy |-> "u1",
                  isActive |-> TRUE, updatedAt |-> Len(StoredMessages)],
                 [userId |-> "u2", title |-> titleOf("Hello"), createdBy |-> "u2",
                  isActive |-> TRUE, updatedAt |-> Len(StoredMessages)]>>
  /\ \E kept \in SUBSET (1..Len(StoredMessages)) :
       messages = SelectSeq(StoredMessages, LAMBDA m : m.id \in kept)
  /\ nextId = Len(StoredMessages) + 1
  /\ clock = Len(StoredMessages) + 1
  /\ enabled = FALSE
  /\ turn = [p \in Slots |-> IdleTurn]
  /\ started = 0

MemoryNext ==
  \E p \in Slots :
    \/ \E tid \in {BadId, AbsentId} \cup ThreadIds, q \in RecallQueries,
          dbFails \in BOOLEAN :
         getRelevantMemory(p, tid, q, dbFails)
    \/ Finish(p)

MemorySpec == MemoryInit /\ [][MemoryNext]_vars

(***************************************************************************)
(* Properties.                                                             *)
(***************************************************************************)
FailureCauses == {"non2xx", "network", "timeout", "other"}

\* the ways a turn can end in a failure that is not caused by the backend
OwnFailures == {"ValidationError", "NotFoundError", "PersistenceError"}

Stored(id, tid, sender, content) ==
  \E i \in 1..Len(messages) :
    /\ messages[i].id = id
    /\ messages[i].threadId = tid
    /\ messages[i].sender = sender
    /\ messages[i].content = content

RetrievalNeverRaises ==
  \A p \in DOMAIN turn :
    LET r == turn[p].ragResponse IN
    r.outcome # "" =>
      /\ ~r.threw
      /\ r.outcome = "disabled" =>
           r.defined /\ r.answer # "" /\ Includes(r.context, "disabled")
      /\ r.outcome \in FailureCauses =>
           r.defined /\ r.answer # "" /\ Includes(r.context, "Error")

\* the retrieval call timed out and the handler holds its result
RetrievalTimedOut ==
  \E p \in DOMAIN turn :
    /\ turn[p].pc = "saveAi"
    /\ turn[p].ragResponse.outcome = "timeout"

\* C3: the answer of a failed retrieval call is the answer of the disabled
\* service; the context differs and there is no responseId in either.
FailureAnswerIsDisabledAnswer ==
  \A p \in DOMAIN turn :
    LET r == turn[p].ragResponse IN
    /\ r.outcome \in FailureCauses =>
         /\ r.answer = DisabledAnswer
         /\ r.context # DisabledContext
         /\ r.responseId = ""
    /\ r.outcome = "disabled" =>
         /\ r.answer = DisabledAnswer
         /\ r.context = DisabledContext
         /\ r.responseId = ""

\* the retrieval call failed with a network error and the handler holds its
\* result
RetrievalNetworkError ==
  \E p \in DOMAIN turn :
    /\ turn[p].pc = "saveAi"
    /\ turn[p].ragResponse.outcome = "network"
    /\ turn[p].ragResponse.context = ErrorContext

\* C4: every started turn eventually responds or fails, also when the backend
\* never answers a call.
TurnTerminates ==
  \A p \in Slots : (turn[p].pc = "resolve") ~> (turn[p].pc \in {"done", "failed"})

\* C5: the stages of a turn begin in the order of StageOrder, none is skipped,
\* the external calls are made in the order index, retrieve, index, and no
\* stage begins while a call of an earlier stage is outstanding.
StagesInOrder ==
  \A p \in DOMAIN turn :
    LET t == turn[p]
        apis == [i \in 1..Len(t.sent) |-> t.sent[i].api] IN
    /\ Len(t.trace) <= Len(StageOrder)
    /\ t.trace = SubSeq(StageOrder, 1, Len(t.trace))
    /\ t.pc = "done" => t.trace = StageOrder
    /\ InFlight(p) => StageRank(StageOf(t.pc)) \in {Len(t.trace), Len(t.trace) + 1}
    /\ t.call # "none" =>
         /\ t.pc \in {"awaitEmbedUser", "awaitRag", "awaitEmbedAi"}
         /\ t.trace[Len(t.trace)] = StageOf(t.pc)
    /\ apis = SubSeq(<<"/embed", "/rag-generate", "/embed">>, 1, Len(apis))
    /\ t.aiMessageId # NoId => t.newMessageId # NoId /\ t.newMessageId < t.aiMessageId
    /\ t.newMessageId # NoId => t.actualThreadId # NoId

\* a turn has gone through all stages with the backend enabled
FullTurnWithBackend ==
  \E p \in DOMAIN turn :
    /\ turn[p].pc = "done"
    /\ turn[p].trace = StageOrder
    /\ Len(turn[p].sent) = 3

\* C6: a failed index submission never fails the turn: the handler goes on to
\* the next stage, both halves are submitted, and what is stored and answered
\* is what the retrieval result and the content determine.
IndexFailureNeverRaised ==
  \A p \in DOMAIN turn :
    LET t == turn[p] IN
    /\ t.failedAt \notin {"indexUser", "awaitEmbedUser", "indexAi", "awaitEmbedAi"}
    /\ t.embeddingResult.status = "error" =>
         /\ t.pc \in {"retrieve", "awaitRag", "saveAi", "indexAi", "awaitEmbedAi", "touch"}
         /\ Stored(t.newMessageId, t.actualThreadId, t.userId, t.content)
    /\ t.aiEmbeddingResult.status = "error" =>
         /\ t.pc = "touch"
         /\ t.enhancedResponse = composeAnswer(t.ragAnswer, t.content)
         /\ Stored(t.aiMessageId, t.actualThreadId, "system", t.enhancedResponse)
    /\ t.pc \in {"touch", "done"} /\ ~enabled =>
         /\ t.sent = <<>>
         /\ \E i \in 1..Len(t.trace) : t.trace[i] = "IndexUserMessage"
         /\ \E i \in 1..Len(t.trace) : t.trace[i] = "IndexAssistantMessage"
         /\ Stored(t.newMessageId, t.actualThreadId, t.userId, t.content)
    /\ t.pc \in {"touch", "done"} /\ enabled =>
         /\ Len(t.sent) = 3
         /\ t.sent[1] = embedRequest(t, t.content, t.newMessageId)
         /\ t.sent[3].api = "/embed"
         /\ t.sent[3].messageId = t.aiMessageId
         /\ Stored(t.aiMessageId, t.actualThreadId, "system", t.sent[3].content)

\* the submission of the user message failed, the submission of the assistant
\* message was still made and succeeded
UserIndexFailedAiIndexed ==
  \E p \in DOMAIN turn :
    /\ turn[p].pc = "touch"
    /\ turn[p].embeddingResult.status = "error"
    /\ turn[p].aiEmbeddingResult.status = "success"

\* C7: when the save of the user message fails the turn fails at once: no
\* message is stored, no thread is touched, no external call is made, and the
\* handler takes no further step.
UserSaveFailureAborts ==
  [][\A p \in DOMAIN turn :
       /\ (turn[p].pc = "saveUser" /\ turn'[p].pc = "failed") =>
             /\ messages' = messages
             /\ threads' = threads
             /\ turn'[p].failedAt = "saveUser"
             /\ turn'[p].sent = <<>>
             /\ turn'[p].newMessageId = NoId
             /\ turn'[p].aiMessageId = NoId
             /\ turn'[p].trace = <<"ResolveThread", "PersistUserMessage">>
       /\ turn[p].failedAt = "saveUser" =>
             /\ turn'[p] = turn[p] \/ turn'[p] = IdleTurn
             /\ messages' = messages
             /\ threads' = threads]_vars

\* the save of the user message has failed
UserSaveFailed ==
  \E p \in DOMAIN turn :
    /\ turn[p].pc = "failed"
    /\ turn[p].failedAt = "saveUser"
    /\ turn[p].actualThreadId # NoId

\* C8: when the save of the assistant message or the update of the thread
\* fails the turn fails, and the thread and the user message stay stored; after
\* a failed update the assistant message stays stored too.
LateFailureKeepsWrites ==
  \A p \in DOMAIN turn :
    LET t == turn[p] IN
    t.failedAt \in {"saveAi", "touch"} =>
      /\ t.pc = "failed"
      /\ t.error = "PersistenceError"
      /\ ThreadExists(t.actualThreadId)
      /\ \E i \in 1..Len(messages) :
           /\ messages[i].id = t.newMessageId
           /\ messages[i].threadId = t.actualThreadId
           /\ messages[i].sender = t.userId
      /\ t.failedAt = "saveAi" => t.aiMessageId = NoId
      /\ t.failedAt = "touch" =>
           \E i \in 1..Len(messages) :
             /\ messages[i].id = t.aiMessageId
             /\ messages[i].threadId = t.actualThreadId
             /\ messages[i].sender = "system"

\* the save of the assistant message failed in a turn that created its thread
AiSaveFailedInNewThread ==
  \E p \in DOMAIN turn :
    /\ turn[p].failedAt = "saveAi"
    /\ turn[p].created
    /\ threads[turn[p].actualThreadId].isActive

\* C9: the create step does not look again: a handler that found no active
\* thread appends a new active thread for its user whatever was created since,
\* so that two handlers of one user that both passed the find step leave two
\* active threads.
CreateDoesNotLookAgain ==
  [][\A p \in DOMAIN turn :
       (turn[p].pc = "createThread" /\ turn'[p].pc = "saveUser") =>
          /\ Len(threads') = Len(threads) + 1
          /\ turn'[p].actualThreadId = Len(threads')
          /\ threads'[Len(threads')].userId = turn[p].userId
          /\ threads'[Len(threads')].isActive
          /\ SubSeq(threads', 1, Len(threads)) = threads]_vars

\* two handlers of one user are in flight, each has created a thread, and the
\* user has two active threads
TwoActiveThreads ==
  \E u \in Users :
    /\ Cardinality(ActiveThreadsOf(u)) >= 2
    /\ \A p \in DOMAIN turn :
         /\ InFlight(p)
         /\ turn[p].userId = u
         /\ turn[p].created

\* C10: when the requests run one after the other, a user has at most one
\* thread, it is active and created by the user, and every request without
\* threadId resolves to it.
OneThreadPerUser ==
  /\ \A i \in ThreadIds :
       /\ threads[i].userId \in Users
       /\ threads[i].isActive
       /\ threads[i].createdBy = threads[i].userId
  /\ \A u \in Users : Cardinality(ThreadsOf(u)) <= 1
  /\ \A p \in DOMAIN turn :
       LET t == turn[p] IN
       (t.threadId = NoId /\ t.actualThreadId # NoId) =>
          ThreadsOf(t.userId) = {t.actualThreadId}

\* a later request without threadId has resolved to the thread that an
\* earlier request of the user created
LaterCallResolvedToSameThread ==
  \E p \in DOMAIN turn :
    /\ started = 2
    /\ turn[p].pc = "saveUser"
    /\ turn[p].threadId = NoId
    /\ ~turn[p].created
    /\ turn[p].actualThreadId \in ThreadsOf(turn[p].userId)

\* C11: the first turn on an empty store with the backend disabled answers
\* with the text of the disabled service, unchanged by the enhancer, in a
\* thread that this turn created, and leaves exactly two messages in that
\* thread: the user's, then one of sender "system".
FirstTurnDisabled ==
  \A p \in DOMAIN turn :
    LET t == turn[p] IN
    (t.pc = "done" /\ ~enabled /\ started = 1) =>
       /\ t.response.answer = DisabledAnswer
       /\ t.response.context = DisabledContext
       /\ t.created
       /\ ThreadIds = {t.response.threadId}
       /\ threads[t.response.threadId].userId = t.userId
       /\ Len(messages) = 2
       /\ MessagesOf(t.response.threadId) =
            << [id |-> t.newMessageId, threadId |-> t.response.threadId,
                content |-> t.content, sender |-> t.userId],
               [id |-> t.aiMessageId, threadId |-> t.response.threadId,
                content |-> DisabledAnswer, sender |-> "system"] >>
       /\ t.sent = <<>>

\* the first turn has responded with the backend disabled
FirstTurnDisabledDone ==
  \E p \in DOMAIN turn :
    /\ turn[p].pc = "done"
    /\ ~enabled
    /\ started = 1
    /\ Len(threads) = 1
    /\ turn[p].response.answer = DisabledAnswer

\* C12: in the response of a turn, messageId is the id of the message that
\* this turn stored for the user, not of the assistant's, and threadId is the
\* thread that holds both messages of the turn.
ResponseNamesUserMessage ==
  \A p \in DOMAIN turn :
    LET t == turn[p] IN
    t.pc = "done" =>
       /\ t.response.messageId \in MessageIds
       /\ t.response.messageId # t.aiMessageId
       /\ MessageById(t.response.messageId).sender = t.userId
       /\ MessageById(t.response.messageId).content = t.content
       /\ MessageById(t.response.messageId).threadId = t.response.threadId
       /\ t.aiMessageId \in MessageIds
       /\ MessageById(t.aiMessageId).sender = "system"
       /\ MessageById(t.aiMessageId).threadId = t.response.threadId
       /\ t.response.messageId + 1 = t.aiMessageId
       /\ \A i \in 1..Len(messages) : messages[i].id <= t.aiMessageId

\* a second turn, sent with the threadId of an existing thread, has responded
SecondTurnInGivenThread ==
  \E p \in DOMAIN turn :
    /\ turn[p].pc = "done"
    /\ started = 2
    /\ turn[p].threadId # NoId
    /\ turn[p].response.threadId = turn[p].threadId
    /\ turn[p].response.messageId > 1

IdRoutes == {"GET /:id", "PUT /:id", "DELETE /:id"}

\* C13: a request that names an absent target fails with NotFoundError and
\* changes nothing: createTurn with a threadId of no thread, GET, PUT and
\* DELETE with an id of no message, POST /batch with a threadId of no thread.
\* No thread is created, no message is stored, edited or removed, and no
\* external request is sent; only a failing database read comes first.
AbsentTargetChangesNothing ==
  [][\A p \in DOMAIN turn :
       LET t == turn[p]
           n == turn'[p] IN
       /\ (t.pc = "resolve" /\ t.threadId # NoId /\ ~ThreadExists(t.threadId)) =>
             /\ n.pc = "failed"
             /\ n.error = "NotFoundError"
             /\ n.failedAt = "resolve"
             /\ n.actualThreadId = NoId
             /\ n.sent = <<>>
             /\ threads' = threads
             /\ messages' = messages
       /\ (t.pc = "idle" /\ n.route \in IdRoutes /\ n.error # "ValidationError"
             /\ n.id \notin MessageIds) =>
             /\ n.pc = "failed"
             /\ n.error \in {"NotFoundError", "PersistenceError"}
             /\ n.result = <<>>
             /\ n.sent = <<>>
             /\ threads' = threads
             /\ messages' = messages
       /\ (t.pc = "idle" /\ n.route = "POST /batch" /\ n.error # "ValidationError"
             /\ ~ThreadExists(n.threadId)) =>
             /\ n.pc = "failed"
             /\ n.error \in {"NotFoundError", "PersistenceError"}
             /\ n.result = <<>>
             /\ n.sent = <<>>
             /\ threads' = threads
             /\ messages' = messages
       /\ (n.error = "NotFoundError" /\ t.error # "NotFoundError") =>
             /\ threads' = threads
             /\ messages' = messages
             /\ nextId' = nextId
             /\ n.sent = <<>>]_vars

\* a createTurn with the threadId of no thread was refused while the store
\* holds threads and messages
AbsentThreadRefused ==
  \E p \in DOMAIN turn :
    /\ turn[p].pc = "failed"
    /\ turn[p].error = "NotFoundError"
    /\ turn[p].failedAt = "resolve"
    /\ turn[p].threadId = AbsentId
    /\ Len(threads) > 0
    /\ Len(messages) > 0

\* C14: a request that lacks a required field or carries a malformed id is
\* rejected with ValidationError before any persistence: for createTurn a
\* missing content, a missing userId or a malformed threadId; for GET, PUT and
\* DELETE a malformed id, for PUT a missing content; for POST /batch a missing
\* or malformed threadId or no messages.  Threads and messages are the same
\* after the call, and no external request is sent.
InvalidRequestRejected ==
  [][\A p \in DOMAIN turn :
       LET t == turn[p]
           n == turn'[p]
           rejected == /\ n.pc = "failed"
                       /\ n.error = "ValidationError"
                       /\ n.sent = <<>>
                       /\ n.result = <<>>
                       /\ threads' = threads
                       /\ messages' = messages
                       /\ nextId' = nextId
                       /\ started' = started
       IN
       /\ \A r \in ApiRequests :
            ((r[1] = "" \/ r[2] = "" \/ r[3] = BadId)
               /\ StartTurn(p, r[1], r[2], r[3], MaxCalls)) => rejected
       /\ (t.pc = "idle" /\ n.route \in IdRoutes /\ n.id = BadId) => rejected
       /\ (t.pc = "idle" /\ n.route = "PUT /:id" /\ n.content = "") => rejected
       /\ (t.pc = "idle" /\ n.route = "POST /batch"
             /\ (n.threadId \in {NoId, BadId} \/ n.batch = <<>>)) => rejected
       /\ (t.pc = "idle" /\ n.error = "ValidationError") => rejected]_vars

\* a createTurn was rejected by the validation while the store holds threads
\* and messages
InvalidTurnRejected ==
  \E p \in DOMAIN turn :
    /\ turn[p].pc = "failed"
    /\ turn[p].error = "ValidationError"
    /\ turn[p].failedAt = "validate"
    /\ Len(threads) > 0
    /\ Len(messages) > 0

\* the ids of the stored messages after the step
MessageIdsAfter == {messages'[i].id : i \in 1..Len(messages')}

\* the owner of the thread of a stored message
OwnerOf(id) == threads[MessageById(id).threadId].userId

\* C15: GET, PUT or DELETE of a stored message with a userId that is not the
\* userId of the message's thread, and POST /batch into a thread with a
\* userId that is not the thread's, fail with UnauthorizedError (a failing
\* database read apart): nothing is returned, and threads and messages are as
\* before.
ForeignCallerRefused ==
  [][\A p \in DOMAIN turn :
       LET t == turn[p]
           n == turn'[p]
           refused == /\ n.pc = "failed"
                      /\ n.error \in {"UnauthorizedError", "PersistenceError"}
                      /\ n.result = <<>>
                      /\ threads' = threads
                      /\ messages' = messages
                      /\ nextId' = nextId
       IN
       /\ (t.pc = "idle" /\ n.route \in IdRoutes /\ n.error # "ValidationError"
             /\ n.id \in MessageIds /\ n.userId # ""
             /\ OwnerOf(n.id) # n.userId) => refused
       /\ (t.pc = "idle" /\ n.route = "POST /batch" /\ n.error # "ValidationError"
             /\ ThreadExists(n.threadId) /\ n.userId # ""
             /\ threads[n.threadId].userId # n.userId) => refused
       /\ (t.pc = "idle" /\ n.error = "UnauthorizedError") =>
             /\ refused
             /\ n.userId # ""
             /\ n.route \in IdRoutes =>
                  (n.id \in MessageIds /\ OwnerOf(n.id) # n.userId)
             /\ n.route = "POST /batch" =>
                  (ThreadExists(n.threadId) /\ threads[n.threadId].userId # n.userId)]_vars

\* a user asked to delete a message of another user's thread and was refused;
\* the message is stored
ForeignDeleteRefused ==
  \E p \in DOMAIN turn :
    /\ turn[p].route = "DELETE /:id"
    /\ turn[p].error = "UnauthorizedError"
    /\ turn[p].userId \in Users
    /\ turn[p].id \in MessageIds
    /\ OwnerOf(turn[p].id) \in Users \ {turn[p].userId}

\* C16: GET, PUT, DELETE and POST /batch without userId make no ownership
\* check: when the request is valid and the message or thread exists, the
\* call is never refused, whoever owns the target, and has its effect unless
\* a database operation fails.
AnonymousCallerNotChecked ==
  [][\A p \in DOMAIN turn :
       LET t == turn[p]
           n == turn'[p] IN
       /\ (t.pc = "idle" /\ n.route \in IdRoutes /\ n.error # "ValidationError"
             /\ n.userId = "" /\ n.id \in MessageIds) =>
             /\ n.error \in {"", "PersistenceError"}
             /\ n.error = "" =>
                  /\ n.pc = "done"
                  /\ Len(n.result) = 1
                  /\ n.result[1].id = n.id
                  /\ n.result[1].threadId = MessageById(n.id).threadId
                  /\ n.route = "GET /:id" =>
                       (n.result[1] = MessageById(n.id) /\ messages' = messages)
                  /\ n.route = "PUT /:id" =>
                       \E i \in 1..Len(messages') :
                         messages'[i].id = n.id /\ messages'[i].content = n.content
                  /\ n.route = "DELETE /:id" => n.id \notin MessageIdsAfter
       /\ (t.pc = "idle" /\ n.route = "POST /batch" /\ n.error # "ValidationError"
             /\ n.userId = "" /\ ThreadExists(n.threadId)) =>
             /\ n.error \in {"", "PersistenceError"}
             /\ n.error = "" =>
                  /\ n.pc = "done"
                  /\ Len(messages') = Len(messages) + Len(n.batch)]_vars

\* a message of a user's thread was deleted by a request without userId
AnonymousDeleteDone ==
  \E p \in DOMAIN turn :
    /\ turn[p].route = "DELETE /:id"
    /\ turn[p].pc = "done"
    /\ turn[p].userId = ""
    /\ turn[p].id \notin MessageIds
    /\ threads[turn[p].result[1].threadId].userId \in Users

\* C17: POST /batch is all-or-nothing: after a call that fails, whatever the
\* point of failure, the messages are as before the call; after a call that
\* succeeds, every message of the batch is stored in the thread.
BatchAllOrNothing ==
  [][\A p \in DOMAIN turn :
       LET t == turn[p]
           n == turn'[p] IN
       (t.pc = "idle" /\ n.route = "POST /batch") =>
          /\ n.pc = "failed" => messages' = messages
          /\ n.pc = "done" =>
               /\ Len(messages') = Len(messages) + Len(n.batch)
               /\ SubSeq(messages', 1, Len(messages)) = messages
               /\ \A i \in 1..Len(n.batch) :
                    /\ messages'[Len(messages) + i].threadId = n.threadId
                    /\ messages'[Len(messages) + i].content = n.batch[i].content]_vars

\* C18: a successful POST /batch of n payloads returns n records, in the
\* order of the input and with the contents of the input, stores them as
\* they were given, without any enhancement, and sends no request to the
\* backend; the thread is not touched.
BatchStoresInputAsGiven ==
  [][\A p \in DOMAIN turn :
       LET t == turn[p]
           n == turn'[p]
           k == Len(n.batch)
           base == Len(messages) IN
       (t.pc = "idle" /\ n.route = "POST /batch" /\ n.pc = "done") =>
          /\ k > 0
          /\ Len(n.result) = k
          /\ Cardinality({n.result[i].id : i \in 1..k}) = k
          /\ Len(messages') = base + k
          /\ SubSeq(messages', 1, base) = messages
          /\ \A i \in 1..k :
               /\ n.result[i].content = n.batch[i].content
               /\ n.result[i].threadId = n.threadId
               /\ n.result[i].id \notin MessageIds
               /\ messages'[base + i].id = n.result[i].id
               /\ messages'[base + i].content = n.batch[i].content
               /\ messages'[base + i].threadId = n.threadId
               /\ messages'[base + i].sender =
                    (IF n.batch[i].sender # "" THEN n.batch[i].sender
                     ELSE IF n.userId # "" THEN n.userId ELSE "system")
          /\ n.sent = <<>>
          /\ n.trace = <<>>
          /\ threads' = threads]_vars

\* two payloads, one of them a text the enhancer would replace, were stored by
\* a batch without userId while the backend is enabled
BatchOfTwoStored ==
  \E p \in DOMAIN turn :
    /\ turn[p].route = "POST /batch"
    /\ turn[p].pc = "done"
    /\ enabled
    /\ turn[p].userId = ""
    /\ Len(turn[p].result) = 2
    /\ turn[p].result[2].content = Boiler1
    /\ IsBoilerplate(messages[Len(messages)].content)

\* C19: a successful DELETE /:id removes the message of that id and no other,
\* leaves the threads as they are, and returns the id, the threadId of the
\* removed message and deleted = true.
DeleteRemovesOneMessage ==
  [][\A p \in DOMAIN turn :
       LET t == turn[p]
           n == turn'[p] IN
       (t.pc = "idle" /\ n.route = "DELETE /:id" /\ n.pc = "done") =>
          /\ n.id \in MessageIds
          /\ n.id \notin MessageIdsAfter
          /\ Len(messages') = Len(messages) - 1
          /\ \A i \in 1..Len(messages) :
               messages[i].id # n.id =>
                 \E j \in 1..Len(messages') : messages'[j] = messages[i]
          /\ threads' = threads
          /\ nextId' = nextId
          /\ n.result = << [id |-> n.id, threadId |-> MessageById(n.id).threadId,
                            deleted |-> TRUE] >>]_vars

\* a message was deleted and the other message of its thread is still stored
DeletedOneOfTwo ==
  \E p \in DOMAIN turn :
    /\ turn[p].route = "DELETE /:id"
    /\ turn[p].pc = "done"
    /\ turn[p].id \notin MessageIds
    /\ Len(messages) = 1
    /\ messages[1].threadId = turn[p].result[1].threadId
    /\ ThreadExists(turn[p].result[1].threadId)

\* C20: enhanceResponse returns a candidate answer of more than 200
\* characters unchanged, whatever the query; a candidate of exactly 200
\* characters does not pass through: what is returned is another text.
LongAnswerPassesThrough ==
  \A p \in DOMAIN turn :
    LET t == turn[p] IN
    t.pc = "composed" =>
       /\ Len(t.ragAnswer) > 200 => t.enhancedResponse = t.ragAnswer
       /\ Len(t.ragAnswer) = 200 => t.enhancedResponse # t.ragAnswer

\* a candidate of 201 characters was returned unchanged for a query that is a
\* greeting
Passed201ForGreeting ==
  \E p \in DOMAIN turn :
    /\ turn[p].pc = "composed"
    /\ Len(turn[p].ragAnswer) = 201
    /\ turn[p].content = "Hello"
    /\ turn[p].enhancedResponse = turn[p].ragAnswer

\* C21: for a candidate answer that is one of the four boilerplate texts
\* enhanceResponse returns the substitute of that text, whatever the query,
\* also for a query with a greeting, help, thanks or farewell keyword.
BoilerplateReplaced ==
  \A p \in DOMAIN turn :
    LET t == turn[p] IN
    t.pc = "composed" =>
       /\ t.ragAnswer = Boiler1 => t.enhancedResponse = Rich1
       /\ t.ragAnswer = Boiler2 => t.enhancedResponse = Rich2
       /\ t.ragAnswer = Boiler3 => t.enhancedResponse = Rich3
       /\ t.ragAnswer = Boiler4 => t.enhancedResponse = Rich4

\* a boilerplate text was replaced by its substitute for a query that is a
\* greeting and a request for help
BoilerplateReplacedForGreeting ==
  \E p \in DOMAIN turn :
    /\ turn[p].pc = "composed"
    /\ turn[p].ragAnswer = Boiler2
    /\ turn[p].content = "hello and help"
    /\ turn[p].enhancedResponse = Rich2

BoilerplateTexts == {Boiler1, Boiler2, Boiler3, Boiler4}

\* the category keywords that are substrings of the lower-cased query
Greets(q) == Includes(ToLowerCase(q), "hello") \/ Includes(ToLowerCase(q), "hi")
AsksHelp(q) == Includes(ToLowerCase(q), "help") \/ Includes(ToLowerCase(q), "assist")
Thanks(q) == Includes(ToLowerCase(q), "thanks") \/ Includes(ToLowerCase(q), "thank you")
Leaves(q) == Includes(ToLowerCase(q), "bye") \/ Includes(ToLowerCase(q), "goodbye")

\* C22: for a candidate answer of at most 200 characters that is not a
\* boilerplate text, enhanceResponse returns the text of the first of the
\* categories greeting, help, thanks, farewell that has a keyword in the
\* query, compared without regard to case.
FirstCategoryWins ==
  \A p \in DOMAIN turn :
    LET t == turn[p]
        q == t.content IN
    (t.pc = "composed" /\ Len(t.ragAnswer) <= 200 /\ t.ragAnswer \notin BoilerplateTexts) =>
       /\ Greets(q) => t.enhancedResponse = GreetingText
       /\ (~Greets(q) /\ AsksHelp(q)) => t.enhancedResponse = HelpText
       /\ (~Greets(q) /\ ~AsksHelp(q) /\ Thanks(q)) => t.enhancedResponse = ThanksText
       /\ (~Greets(q) /\ ~AsksHelp(q) /\ ~Thanks(q) /\ Leaves(q)) =>
            t.enhancedResponse = FarewellText

\* C27: for a candidate answer of at most 200 characters that is not a
\* boilerplate text and a query without any category keyword,
\* enhanceResponse returns the candidate followed by the generic suffix: the
\* candidate is a prefix of the result.
SuffixAppended ==
  \A p \in DOMAIN turn :
    LET t == turn[p]
        q == t.content IN
    (t.pc = "composed" /\ Len(t.ragAnswer) <= 200 /\ t.ragAnswer \notin BoilerplateTexts
       /\ ~Greets(q) /\ ~AsksHelp(q) /\ ~Thanks(q) /\ ~Leaves(q)) =>
       /\ t.enhancedResponse = t.ragAnswer \o GenericSuffix
       /\ SubSeq(t.enhancedResponse, 1, Len(t.ragAnswer)) = t.ragAnswer
       /\ Len(t.enhancedResponse) > Len(t.ragAnswer)

\* C26: the title of a thread that a turn creates is the first 50 characters
\* of the turn's content, followed by "..." exactly when the content has more
\* than 50 characters; a content of 50 characters is its own title.
TitleIsFirstFifty ==
  \A p \in DOMAIN turn :
    LET t == turn[p] IN
    t.created =>
       LET c == t.content
           title == threads[t.actualThreadId].title IN
       /\ Len(c) <= 50 => title = c
       /\ Len(c) > 50 =>
            /\ Len(title) = 53
            /\ SubSeq(title, 1, 50) = SubSeq(c, 1, 50)
            /\ SubSeq(title, 51, 53) = "..."

\* a thread was created for a content of exactly 50 characters
TitleOfFiftyCharacters ==
  \E p \in DOMAIN turn :
    /\ turn[p].created
    /\ Len(turn[p].content) = 50
    /\ threads[turn[p].actualThreadId].title = turn[p].content

\* C28: when the backend answers the retrieval call, getRAGResponse returns
\* the answer, the context and the responseId of the body as they are; an
\* answer that is empty, or a body that is missing, makes the handler take
\* the fallback text, whose substitute is what is stored and answered.
BackendAnswerUsed ==
  [][\A p \in DOMAIN turn :
       LET t == turn[p]
           n == turn'[p] IN
       /\ \A o \in RagOutcomes :
            (o.kind = "ok" /\ RagReply(p, o)) =>
               /\ ~n.ragResponse.threw
               /\ n.ragResponse.defined = o.data.defined
               /\ n.ragResponse.answer = o.data.answer
               /\ n.ragResponse.context = o.data.context
               /\ n.ragResponse.responseId = o.data.responseId
               /\ (o.data.defined /\ o.data.answer # "") =>
                    /\ n.ragAnswer = o.data.answer
                    /\ n.ragContext = o.data.context
                    /\ n.responseId = o.data.responseId
                    /\ n.enhancedResponse = enhanceResponse(o.data.answer, t.content)
               /\ (~o.data.defined \/ o.data.answer = "") =>
                    /\ n.ragAnswer = ""
                    /\ n.enhancedResponse = Rich1
       /\ (t.pc = "saveAi" /\ n.pc = "indexAi") =>
            Len(messages') = Len(messages) + 1
              /\ messages'[Len(messages')].content = t.enhancedResponse
       /\ (t.pc = "touch" /\ n.pc = "done") =>
            /\ n.response.answer = t.enhancedResponse
            /\ n.response.context = t.ragContext
            /\ n.response.responseId = t.responseId]_vars

\* the backend answered with an empty answer and the handler holds the
\* substitute of the fallback text
EmptyAnswerReplaced ==
  \E p \in DOMAIN turn :
    /\ turn[p].pc = "saveAi"
    /\ turn[p].ragResponse.outcome = "ok"
    /\ turn[p].ragResponse.defined
    /\ turn[p].ragResponse.answer = ""
    /\ turn[p].enhancedResponse = Rich1

\* C23: when a createTurn or generateOnly request carries a context string,
\* the context field of its response is that string.
ResponseEchoesContext ==
  \A p \in DOMAIN turn :
    (turn[p].pc = "done" /\ turn[p].route \in {"", GenerateRoute}
       /\ turn[p].context # "")
      => turn[p].response.context = turn[p].context

\* C24: generateOnly on an existing thread runs the stages of createTurn with
\* their effects: when it responds, both messages are stored in the thread,
\* every stage through TouchThreadTimestamp has run, and the thread's
\* updatedAt has been set by this request.
GenerateRunsTheTurn ==
  [][\A p \in DOMAIN turn :
       (turn[p].route = GenerateRoute /\ turn[p].pc # "done" /\ turn'[p].pc = "done")
         => /\ turn'[p].trace = StageOrder
            /\ \E i, j \in 1..Len(messages') :
                 /\ i < j
                 /\ messages'[i].id = turn'[p].newMessageId
                 /\ messages'[i].threadId = turn'[p].threadId
                 /\ messages'[i].content = turn'[p].content
                 /\ messages'[j].id = turn'[p].aiMessageId
                 /\ messages'[j].threadId = turn'[p].threadId
                 /\ messages'[j].content = turn'[p].response.answer
            /\ \E at \in 1..clock :
                 /\ at > threads[turn'[p].threadId].updatedAt
                 /\ threads'[turn'[p].threadId].updatedAt = at]_vars

\* C29: a successful updateMessage(id, content) changes the content of the
\* message with that id and nothing else: that message keeps its threadId and
\* sender, every other message is as it was, no message is added or removed,
\* and every thread, the owning thread's updatedAt included, is unchanged.
UpdateChangesContentOnly ==
  [][\A p \in DOMAIN turn :
       (turn[p].pc = "idle" /\ turn'[p].route = "PUT /:id" /\ turn'[p].pc = "done")
         => /\ turn'[p].id \in MessageIds
            /\ Len(messages') = Len(messages)
            /\ \A i \in 1..Len(messages) :
                 /\ messages'[i].id = messages[i].id
                 /\ messages'[i].threadId = messages[i].threadId
                 /\ messages'[i].sender = messages[i].sender
                 /\ messages'[i].content =
                      IF messages[i].id = turn'[p].id THEN turn'[p].content
                      ELSE messages[i].content
            /\ threads' = threads
            /\ nextId' = nextId]_vars

UpdatedOneOfTwo ==
  \E p \in DOMAIN turn :
    /\ turn[p].route = "PUT /:id"
    /\ turn[p].pc = "done"
    /\ \E i, j \in 1..Len(messages) :
         /\ messages[i].id = turn[p].id
         /\ messages[i].content = EditedContent
         /\ messages[j].threadId = messages[i].threadId
         /\ messages[j].content # EditedContent

\* C30: no step changes the userId, createdBy, title or isActive of a thread
\* that exists, and no thread is removed; a thread's updatedAt changes only
\* in the TouchThreadTimestamp step of a createTurn on that thread.
ThreadFieldsFixed ==
  [][/\ Len(threads') >= Len(threads)
     /\ \A tid \in ThreadIds :
          /\ threads'[tid].userId = threads[tid].userId
          /\ threads'[tid].createdBy = threads[tid].createdBy
          /\ threads'[tid].title = threads[tid].title
          /\ threads'[tid].isActive = threads[tid].isActive
          /\ threads'[tid].updatedAt # threads[tid].updatedAt
               => \E p \in DOMAIN turn :
                    /\ turn[p].route = ""
                    /\ turn[p].pc = "touch"
                    /\ turn[p].actualThreadId = tid
                    /\ turn'[p].pc = "done"]_vars

ExistingThreadTouched ==
  \E p \in DOMAIN turn, tid \in ThreadIds :
    /\ turn[p].route = ""
    /\ turn[p].pc = "done"
    /\ ~turn[p].created
    /\ turn[p].response.threadId = tid
    /\ threads[tid].isActive
    /\ threads[tid].updatedAt = clock - 1
    /\ threads[tid].updatedAt > 2
    /\ \E i \in 1..Len(messages) :
         /\ messages[i].threadId = tid
         /\ messages[i].sender = "system"
         /\ messages[i].id < turn[p].response.messageId

\* C25: a createTurn without threadId whose user has several active threads
\* continues in one of them with the greatest updatedAt, and the step that
\* resolves leaves every thread, that one's updatedAt included, unchanged.
ResolvesToLatestUpdated ==
  [][\A p \in DOMAIN turn :
       (/\ turn[p].pc = "resolve"
        /\ turn[p].threadId = NoId
        /\ Cardinality(ActiveThreadsOf(turn[p].userId)) >= 2
        /\ turn'[p].pc # "resolve")
         => /\ turn'[p].pc = "saveUser"
            /\ turn'[p].actualThreadId \in ActiveThreadsOf(turn[p].userId)
            /\ \A j \in ActiveThreadsOf(turn[p].userId) :
                 threads[j].updatedAt <= threads[turn'[p].actualThreadId].updatedAt
            /\ threads' = threads]_vars

ResolvedToOlderThreadUpdatedLater ==
  \E p \in DOMAIN turn :
    /\ turn[p].pc = "saveUser"
    /\ turn[p].threadId = NoId
    /\ ~turn[p].created
    /\ \E j \in ActiveThreadsOf(turn[p].userId) :
         /\ j > turn[p].actualThreadId
         /\ threads[j].updatedAt < threads[turn[p].actualThreadId].updatedAt

HasTrigger(q) ==
  \E phrase \in {"earlier", "before", "remind me", "last time", "previous",
                 "what did i say"} :
    Includes(ToLowerCase(q), phrase)

RecallEnded(p) ==
  turn[p].route = MemoryRoute /\ turn[p].pc \in {"done", "failed"}

\* C31: MemoryRecall on a query that contains no trigger phrase returns an
\* empty result and issues no search of the message store.
NoTriggerNoSearch ==
  \A p \in DOMAIN turn :
    (RecallEnded(p) /\ ~HasTrigger(turn[p].content))
      => /\ turn[p].pc = "done"
         /\ turn[p].result = <<>>
         /\ turn[p].find = <<>>

NoTriggerOverMatchingStore ==
  \E p \in DOMAIN turn :
    /\ RecallEnded(p)
    /\ turn[p].content = "tell me about iot"
    /\ turn[p].threadId \in ThreadIds
    /\ \E i \in 1..Len(messages) :
         /\ messages[i].threadId = turn[p].threadId
         /\ messages[i].sender # "system"
         /\ Includes(ToLowerCase(messages[i].content), "iot")

\* the words of a query: its lowercased pieces between whitespace that are
\* not stop words
KeywordsOf(q) ==
  SelectSeq(splitWhitespace(ToLowerCase(q)),
            LAMBDA w : w # "" /\ w \notin {"what", "did", "i", "say", "about",
                                           "the", "last", "time", "you"})

\* C32: on a query with a trigger phrase MemoryRecall searches with the last
\* word of the lowercased query that is not a stop word; when every word is a
\* stop word the result is empty and no search is issued.
KeywordIsLastNonStopWord ==
  \A p \in DOMAIN turn :
    (RecallEnded(p) /\ HasTrigger(turn[p].content) /\ turn[p].threadId \in ThreadIds)
      => LET keywords == KeywordsOf(turn[p].content) IN
         IF keywords = <<>>
           THEN turn[p].pc = "done" /\ turn[p].result = <<>> /\ turn[p].find = <<>>
           ELSE /\ turn[p].pc = "done"
                /\ turn[p].find = <<[threadId |-> turn[p].threadId,
                                     pattern |-> keywords[Len(keywords)]]>>

\* C33: a MemoryRecall result has at most 3 lines; each is the bullet line of
\* a message of the queried thread whose sender is not "system" and whose
\* content contains the keyword, case-insensitively; the lines are ordered
\* newest first.
RecallLinesContainKeyword ==
  \A p \in DOMAIN turn :
    (RecallEnded(p) /\ turn[p].result # <<>>)
      => /\ Len(turn[p].result) <= 3
         /\ Len(turn[p].find) = 1
         /\ \E at \in [1..Len(turn[p].result) -> 1..Len(messages)] :
              /\ \A i \in 1..Len(turn[p].result) :
                   /\ turn[p].result[i] = Bullet \o messages[at[i]].content
                   /\ messages[at[i]].threadId = turn[p].threadId
                   /\ messages[at[i]].sender # "system"
                   /\ Includes(ToLowerCase(messages[at[i]].content),
                               turn[p].find[1].pattern)
              /\ \A i, j \in 1..Len(turn[p].result) : i < j => at[i] > at[j]

\* C34: for every candidate answer and every query the result of
\* enhanceResponse has more than 200 characters, and enhanceResponse applied
\* to that result, with any query, returns it unchanged.
EnhancedIsFixedPoint ==
  \A p \in DOMAIN turn :
    turn[p].pc = "composed"
      => /\ Len(turn[p].enhancedResponse) > 200
         /\ \A q \in Queries :
              enhanceResponse(turn[p].enhancedResponse, q) = turn[p].enhancedResponse

\* C35: when the backend answers the retrieval call with a non-empty answer
\* that is not a boilerplate text, the answer that the turn composes, stores
\* and returns contains the backend's answer.
BackendAnswerKept ==
  [][\A p \in DOMAIN turn :
       LET t == turn[p]
           n == turn'[p] IN
       /\ \A o \in RagOutcomes :
            (/\ o.kind = "ok"
             /\ o.data.defined
             /\ o.data.answer # ""
             /\ o.data.answer \notin BoilerplateTexts
             /\ RagReply(p, o))
              => Includes(n.enhancedResponse, o.data.answer)
       /\ (t.pc = "touch" /\ n.pc = "done") => n.response.answer = t.enhancedResponse]_vars

\* C36: in every successful turn the answer returned, the content of the
\* assistant message that the turn stored and the content submitted to the
\* indexer for that message are one string; the assistant message has sender
\* "system" and the user message has the request's userId as sender.
OneAnswerEverywhere ==
  \A p \in DOMAIN turn :
    LET t == turn[p] IN
    (t.route = "" /\ t.pc = "done")
      => /\ \E i \in 1..Len(messages) :
              /\ messages[i].id = t.aiMessageId
              /\ messages[i].threadId = t.response.threadId
              /\ messages[i].content = t.response.answer
              /\ messages[i].sender = "system"
         /\ \E i \in 1..Len(messages) :
              /\ messages[i].id = t.newMessageId
              /\ messages[i].id = t.response.messageId
              /\ messages[i].content = t.content
              /\ messages[i].sender = t.userId
         /\ \A k \in 1..Len(t.sent) :
              (t.sent[k].api = "/embed" /\ t.sent[k].messageId = t.aiMessageId)
                => t.sent[k].content = t.response.answer
         /\ enabled =>
              \E k \in 1..Len(t.sent) :
                t.sent[k].api = "/embed" /\ t.sent[k].messageId = t.aiMessageId

EnhancedAnswerIndexed ==
  \E p \in DOMAIN turn :
    /\ turn[p].route = ""
    /\ turn[p].pc = "done"
    /\ turn[p].response.answer \in {GreetingText, ShortAnswer \o GenericSuffix}
    /\ \E k \in 1..Len(turn[p].sent) :
         /\ turn[p].sent[k].api = "/embed"
         /\ turn[p].sent[k].messageId = turn[p].aiMessageId
         /\ turn[p].sent[k].content = turn[p].response.answer

\* C37: in every thread the messages in creation order alternate: a user
\* message, then the assistant message of the same turn, and so on; a turn
\* that has finished stored its assistant message directly after its user
\* message, also when another turn ran on the thread at the same time.
MessagesAlternate ==
  /\ \A tid \in ThreadIds :
       \A i \in 1..Len(MessagesOf(tid)) :
         (MessagesOf(tid)[i].sender = "system") <=> (i % 2 = 0)
  /\ \A p \in DOMAIN turn :
       (turn[p].route = "" /\ turn[p].pc = "done")
         => \E i \in 1..(Len(MessagesOf(turn[p].actualThreadId)) - 1) :
              /\ MessagesOf(turn[p].actualThreadId)[i].id = turn[p].newMessageId
              /\ MessagesOf(turn[p].actualThreadId)[i + 1].id = turn[p].aiMessageId

\* C38: every message that is not the assistant's has as sender the userId of
\* the thread that holds it: a createTurn by another user than the owner of
\* the thread named by threadId stores no message in that thread.
SenderOwnsThread ==
  \A i \in 1..Len(messages) :
    (messages[i].sender # "system" /\ ThreadExists(messages[i].threadId))
      => messages[i].sender = threads[messages[i].threadId].userId

\* C39: when a createTurn has ended, with a response or with a failure, the
\* thread that it created holds at least one message.
CreatedThreadHasMessage ==
  \A p \in DOMAIN turn :
    (turn[p].route = "" /\ turn[p].pc \in {"done", "failed"} /\ turn[p].created)
      => MessagesOf(turn[p].actualThreadId) # <<>>

====
